---- MODULE Spec2Model ----
(***************************************************************************)
(* Solar gap analysis and interpolation (services/interpolationService).   *)
(*                                                                         *)
(* Five state machines share this module:                                  *)
(*   SpecGaps       the Gap Detector (find_gaps_generic) on one column     *)
(*   SpecRecommend  pattern summary + method recommender                   *)
(*   SpecClassify   the failure-pattern classifier                         *)
(*   SpecStrategy   one interpolator strategy instance: fit / interpolate  *)
(*   Spec           the InterpolationEngine run (run_interpolation)        *)
(* Each specification drives its own variables and leaves the others at    *)
(* their parked values.                                                    *)
(*                                                                         *)
(* Power values are integers in hundredths of a unit (200 is 2.00), so     *)
(* that efficiency scaling and quantile interpolation stay exact.          *)
(***************************************************************************)
EXTENDS Integers, Sequences, FiniteSets, TLC

VARIABLES
    series,           \* Gap Detector: the column scanned (sequence of cells)
    gaps,             \* Gap Detector: the gap records returned
    gpc,              \* Gap Detector: "input" | "done" | "off"
    patterns,         \* Recommender: output of the failure-pattern classifier
    all_gap_lengths,  \* Recommender: all_gap_lengths of the analysis
    gap_dist,         \* Recommender: overall gap_length_distribution
    recommendations,  \* Recommender: the recommendation document
    rpc,              \* Recommender: "analysis" | "input" | "done" | "off"
    analysis_columns, \* Classifier: the columns of the analysis (their gaps)
    classified,       \* Classifier: the patterns document returned
    cpc,              \* Classifier: "input" | "done" | "off"
    stg,              \* Strategy caller: instance, frame, power columns
    last,             \* Strategy caller: the last call and its outcome
    req,              \* Engine: the arguments and files of one run
    run               \* Engine: the state of that run

gapVars == <<series, gaps, gpc>>
recVars == <<patterns, all_gap_lengths, gap_dist, recommendations, rpc>>
clsVars == <<analysis_columns, classified, cpc>>
stgVars == <<stg, last>>
engVars == <<req, run>>
vars == <<series, gaps, gpc, patterns, all_gap_lengths, gap_dist, recommendations, rpc,
          analysis_columns, classified, cpc, stg, last, req, run>>

(***************************************************************************)
(* Bounds of the model.                                                    *)
(***************************************************************************)
MaxLen == 6          \* longest series the Gap Detector is run on
MaxApplications == 2 \* most successive calls of the solar post-processor

(***************************************************************************)
(* Cells.                                                                  *)
(***************************************************************************)
NaN == -999999        \* the missing-value sentinel (np.nan)
NonNumeric == -888888 \* a cell that holds text; pd.to_numeric coerces it to NaN
NoneIdx == -1         \* Python None for current_gap_start

IsNa(v) == v = NaN
Min2(a, b) == IF a < b THEN a ELSE b
Max2(a, b) == IF a > b THEN a ELSE b

(***************************************************************************)
(* Gap Detector: SolarGapAnalyzer.find_gaps_generic                        *)
(***************************************************************************)
\* pd.to_numeric(df[column], errors='coerce')
ToNumeric(cell) == IF cell = NonNumeric THEN NaN ELSE cell

\* series.isna(), as a 1-based boolean vector; row i of the frame is s[i+1]
IsMissingVec(s) == [i \in 1..Len(s) |-> IsNa(ToNumeric(s[i]))]

\* b.shift(1).fillna(False)
ShiftFalse(b) == [i \in 1..Len(b) |-> IF i = 1 THEN FALSE ELSE b[i - 1]]

\* gap_starts = is_missing & (is_not_missing.shift(1).fillna(False))
GapStarts(s) ==
    LET m  == IsMissingVec(s)
        nm == [i \in 1..Len(s) |-> ~m[i]]
        sh == ShiftFalse(nm)
    IN  [i \in 1..Len(s) |-> m[i] /\ sh[i]]

\* gap_ends = is_not_missing & (is_missing.shift(1).fillna(False))
GapEnds(s) ==
    LET m  == IsMissingVec(s)
        sh == ShiftFalse(m)
    IN  [i \in 1..Len(s) |-> ~m[i] /\ sh[i]]

\* timestamp of row i (hourly rows, in hours since the first row)
TimeAt(i) == i

GapInfoShort(start, end, length) ==
    [start_index |-> start, end_index |-> end, length |-> length - 1,
     start_time |-> TimeAt(start), end_time |-> TimeAt(end)]
GapInfo(start, end, length) ==
    [start_index |-> start, end_index |-> end, length |-> length,
     start_time |-> TimeAt(start), end_time |-> TimeAt(end)]

\* the for-loop over enumerate(zip(is_missing, gap_starts, gap_ends));
\* i is the 0-based row index, st = [start, len, gaps] the loop's locals
RECURSIVE GapLoop(_, _, _)
GapLoop(s, i, st) ==
    IF i >= Len(s) THEN st
    ELSE LET missing   == IsMissingVec(s)[i + 1]
             gap_start == GapStarts(s)[i + 1]
             gap_end   == GapEnds(s)[i + 1]
             nxt ==
                 IF gap_start
                 THEN [start |-> i, len |-> 1, gaps |-> st.gaps]
                 ELSE IF missing /\ st.start # NoneIdx
                 THEN [st EXCEPT !.len = st.len + 1]
                 ELSE IF gap_end /\ st.start # NoneIdx
                 THEN [start |-> NoneIdx, len |-> 0,
                       gaps |-> Append(st.gaps, GapInfo(st.start, i - 1, st.len))]
                 ELSE st
         IN  GapLoop(s, i + 1, nxt)

find_gaps_generic(s) ==
    LET st == GapLoop(s, 0, [start |-> NoneIdx, len |-> 0, gaps |-> <<>>])
    IN  IF st.start # NoneIdx
        THEN Append(st.gaps, GapInfo(st.start, Len(s) - 1, st.len))
        ELSE st.gaps

Cells == {NaN, NonNumeric, 0, 100}

SeqsUpTo(S, n) == UNION {[1..k -> S] : k \in 0..n}

ParkedGaps == series = <<>> /\ gaps = <<>> /\ gpc = "off"

InitGaps ==
    /\ series \in SeqsUpTo(Cells, MaxLen)
    /\ gaps = <<>>
    /\ gpc = "input"

FindGaps ==
    /\ gpc = "input"
    /\ gaps' = find_gaps_generic(series)
    /\ gpc' = "done"
    /\ UNCHANGED series

(***************************************************************************)
(* Method Recommender: SolarGapAnalyzer._generate_pattern_summary and      *)
(* SolarGapAnalyzer.recommend_methods_generic                              *)
(***************************************************************************)
\* dict.get(k, default)
Get(d, k, default) == IF k \in DOMAIN d THEN d[k] ELSE default

RECURSIVE SumOver(_, _)
SumOver(f, S) ==
    IF S = {} THEN 0
    ELSE LET k == CHOOSE x \in S : TRUE IN f[k] + SumOver(f, S \ {k})

RECURSIVE Pow2Floor(_)
Pow2Floor(n) == IF n < 2 THEN 1 ELSE 2 * Pow2Floor(n \div 2)

\* `count > total * 0.7 | 0.3 | 0.2 | 0.5` in IEEE double arithmetic, for
\* integer count and total.  The doubles nearest 0.3, 0.2 and 0.5 give a
\* product that compares like the exact one.  The double nearest 0.7 is
\* 0.7 - 0.4 * 2^-53, so total * 0.7 rounds to the double just below the
\* integer 0.7 * total when 0.4 * total exceeds 2^floor(log2(0.7 * total)),
\* and the integer count = 0.7 * total then compares greater.
GtShare(count, total, tenths) ==
    \/ 10 * count > tenths * total
    \/ /\ tenths = 7
       /\ 10 * count = 7 * total
       /\ count > 0
       /\ 2 * total > 5 * Pow2Floor(count)

\* the secondary patterns one column contributes, in append order
ColumnSecondary(cp) ==
    (IF cp.degradation = "detected" THEN <<"equipment_degradation">> ELSE <<>>)
    \o (IF cp.maintenance_like # "unknown" THEN <<"maintenance_patterns">> ELSE <<>>)
    \o (IF cp.randomness = "high" THEN <<"random_failures">> ELSE <<>>)

RECURSIVE ColumnsSecondary(_)
ColumnsSecondary(fts) ==
    IF fts = <<>> THEN <<>>
    ELSE ColumnSecondary(Head(fts)) \o ColumnsSecondary(Tail(fts))

generate_pattern_summary(p) ==
    LET primary ==
            IF p.cross.simultaneous_failures = "high"
            THEN [pattern |-> "system_wide_failures", complexity |-> "high"]
            ELSE IF p.cross.independent_failures = "high"
            THEN [pattern |-> "individual_equipment_failures", complexity |-> "medium"]
            ELSE [pattern |-> "unknown", complexity |-> "unknown"]
        secondary ==
            (IF p.temporal.clustered = "high" THEN <<"temporal_clustering">> ELSE <<>>)
            \o (IF p.temporal.seasonal = "high" THEN <<"seasonal_patterns">> ELSE <<>>)
            \o ColumnsSecondary(p.failure_types)
    IN  [primary_pattern |-> primary.pattern,
         secondary_patterns |-> secondary,
         interpolation_complexity |-> primary.complexity]

InSeq(x, sq) == \E i \in 1..Len(sq) : sq[i] = x

\* the if/elif chain of recommend_methods_generic that picks primary_method
\* and method_parameters (before apply_solar_constraints is added)
PatternBranchShuffled(summary, short_gaps, medium_gaps, long_gaps, total_gaps) ==
    IF summary.primary_pattern = "system_wide_failures"
    THEN [method |-> "system_level_interpolation",
          params |-> ("use_system_correlation" :> TRUE @@ "model_backup_power" :> TRUE
                      @@ "include_grid_status" :> TRUE)]
    ELSE IF summary.primary_pattern = "individual_equipment_failures"
    THEN IF InSeq("maintenance_patterns", summary.secondary_patterns)
         THEN [method |-> "maintenance_aware_interpolation",
               params |-> ("use_maintenance_schedules" :> TRUE @@ "model_planned_outages" :> TRUE
                           @@ "include_preventive_maintenance" :> TRUE)]
         ELSE IF InSeq("equipment_degradation", summary.secondary_patterns)
         THEN [method |-> "degradation_aware_interpolation",
               params |-> ("use_degradation_curves" :> TRUE @@ "model_equipment_age" :> TRUE
                           @@ "include_performance_trends" :> TRUE)]
         ELSE IF InSeq("random_failures", summary.secondary_patterns)
         THEN [method |-> "equipment_specific_interpolation",
               params |-> ("model_individual_equipment" :> TRUE @@ "use_equipment_correlation" :> FALSE
                           @@ "include_equipment_specs" :> TRUE)]
         ELSE [method |-> "multi_output_regression",
               params |-> ("model_equipment_independently" :> TRUE
                           @@ "use_equipment_correlation" :> TRUE)]
    ELSE IF GtShare(short_gaps, total_gaps, 7)
    THEN [method |-> "spline_interpolation", params |-> <<>>]
    ELSE IF GtShare(medium_gaps, total_gaps, 3)
    THEN [method |-> "gaussian_process", params |-> <<>>]
    ELSE IF GtShare(long_gaps, total_gaps, 2)
    THEN [method |-> "physics_based_model", params |-> <<>>]
    ELSE [method |-> "unknown", params |-> <<>>]

PatternBranch(summary, short_gaps, medium_gaps, long_gaps, total_gaps) ==
    IF summary.primary_pattern = "system_wide_failures"
    THEN [method |-> "system_level_interpolation",
          params |-> ("use_system_correlation" :> TRUE @@ "model_backup_power" :> TRUE
                      @@ "include_grid_status" :> TRUE)]
    ELSE IF summary.primary_pattern = "individual_equipment_failures"
    THEN IF InSeq("equipment_degradation", summary.secondary_patterns)
         THEN [method |-> "degradation_aware_interpolation",
               params |-> ("use_degradation_curves" :> TRUE @@ "model_equipment_age" :> TRUE
                           @@ "include_performance_trends" :> TRUE)]
         ELSE IF InSeq("maintenance_patterns", summary.secondary_patterns)
         THEN [method |-> "maintenance_aware_interpolation",
               params |-> ("use_maintenance_schedules" :> TRUE @@ "model_planned_outages" :> TRUE
                           @@ "include_preventive_maintenance" :> TRUE)]
         ELSE IF InSeq("random_failures", summary.secondary_patterns)
         THEN [method |-> "equipment_specific_interpolation",
               params |-> ("model_individual_equipment" :> TRUE @@ "use_equipment_correlation" :> FALSE
                           @@ "include_equipment_specs" :> TRUE)]
         ELSE [method |-> "multi_output_regression",
               params |-> ("model_equipment_independently" :> TRUE
                           @@ "use_equipment_correlation" :> TRUE)]
    ELSE IF GtShare(short_gaps, total_gaps, 7)
    THEN [method |-> "spline_interpolation", params |-> <<>>]
    ELSE IF GtShare(medium_gaps, total_gaps, 3)
    THEN [method |-> "gaussian_process", params |-> <<>>]
    ELSE IF GtShare(long_gaps, total_gaps, 2)
    THEN [method |-> "physics_based_model", params |-> <<>>]
    ELSE [method |-> "unknown", params |-> <<>>]

\* recommendations['gap_specific_recommendations']
GapSpecific(short_gaps, medium_gaps, long_gaps, total_gaps) ==
    [short_gaps  |-> IF GtShare(short_gaps, total_gaps, 5)
                     THEN "spline_interpolation" ELSE "multi_output_regression",
     medium_gaps |-> IF GtShare(medium_gaps, total_gaps, 3)
                     THEN "multi_output_regression" ELSE "gaussian_process",
     long_gaps   |-> IF GtShare(long_gaps, total_gaps, 2)
                     THEN "physics_based_model" ELSE "multi_output_regression"]

\* recommendations['configuration'], the per-method parameter blocks
\* (max_efficiency in hundredths, max_power_limits in hundredths of a unit)
Configuration(params, n_columns) ==
    [multi_output_regression |->
        [model_equipment_independently |-> Get(params, "model_equipment_independently", TRUE),
         use_equipment_correlation |-> Get(params, "use_equipment_correlation", TRUE),
         correlation_features |-> IF n_columns >= 3
                                  THEN <<"inverter_1", "inverter_2", "inverter_3">> ELSE <<>>,
         apply_solar_constraints |-> TRUE,
         solar_constraints |->
            [nighttime_zero |-> TRUE,
             max_power_limits |-> ("inverter_1" :> 150000 @@ "inverter_2" :> 150000
                                   @@ "inverter_3" :> 150000),
             negative_clipping |-> TRUE,
             max_efficiency |-> 95]],
     spline_interpolation |->
        [apply_solar_constraints |-> TRUE,
         solar_constraints |-> [nighttime_zero |-> TRUE, negative_clipping |-> TRUE]],
     gaussian_process |->
        [apply_solar_constraints |-> TRUE,
         solar_constraints |-> [nighttime_zero |-> TRUE, negative_clipping |-> TRUE]],
     physics_based_model |->
        [apply_solar_constraints |-> TRUE,
         solar_constraints |-> [nighttime_zero |-> TRUE, negative_clipping |-> TRUE,
                                max_efficiency |-> 95]]]

\* recommend_methods_generic, after classify_failure_patterns returned p
\* without an error; gd is overall_stats.gap_length_distribution
recommend_methods_generic(p, gd) ==
    LET summary     == generate_pattern_summary(p)
        short_gaps  == Get(gd, "1h", 0) + Get(gd, "2h", 0) + Get(gd, "3h", 0)
        medium_gaps == Get(gd, "6h", 0) + Get(gd, "12h", 0) + Get(gd, "1d", 0)
        long_gaps   == Get(gd, "2d", 0) + Get(gd, "1w", 0) + Get(gd, ">1w", 0)
        total_gaps  == SumOver(gd, DOMAIN gd)
        branch      == PatternBranch(summary, short_gaps, medium_gaps, long_gaps, total_gaps)
        params      == branch.params @@ ("apply_solar_constraints" :> TRUE)
    IN  IF total_gaps = 0
        THEN [primary_method |-> "unknown",
              method_parameters |-> <<>>,
              returned_early |-> TRUE,
              pattern_summary |-> summary]
        ELSE [primary_method |-> branch.method,
              method_parameters |-> params,
              returned_early |-> FALSE,
              gap_specific_recommendations |->
                  GapSpecific(short_gaps, medium_gaps, long_gaps, total_gaps),
              configuration |-> Configuration(params, Len(p.failure_types)),
              pattern_summary |-> summary]

\* ---- inputs of the recommender ------------------------------------------
UnknownColumn ==
    [randomness |-> "unknown", systematic |-> "unknown", degradation |-> "unknown",
     maintenance_like |-> "unknown", weather_correlated |-> "unknown"]

\* labels _analyze_column_failure_pattern can produce: a maintenance label
\* needs interval CV < 0.3, which makes the column systematic
ColumnPatterns ==
    {UnknownColumn} \cup
    {cp \in [randomness : {"unknown", "high", "moderate"},
             systematic : {"unknown", "high"},
             degradation : {"unknown", "detected", "stable"},
             maintenance_like : {"unknown", "weekly"},
             weather_correlated : {"unknown"}] :
        /\ (cp.randomness = "unknown") # (cp.systematic = "unknown")
        /\ (cp.maintenance_like # "unknown" => cp.systematic = "high")}

UnknownCross ==
    [simultaneous_failures |-> "unknown", independent_failures |-> "unknown",
     cascading_failures |-> "unknown"]

\* labels _analyze_cross_equipment_correlation can produce for n columns:
\* with two columns that each have a gap some pair is always considered
CrossLabels(n_columns) ==
    IF n_columns < 2 THEN {UnknownCross}
    ELSE {[UnknownCross EXCEPT !.simultaneous_failures = "high"],
          [UnknownCross EXCEPT !.simultaneous_failures = "moderate"],
          [UnknownCross EXCEPT !.independent_failures = "high"]}

TemporalLabels ==
    {[clustered |-> "unknown", distributed |-> "unknown", seasonal |-> "unknown"],
     [clustered |-> "high", distributed |-> "unknown", seasonal |-> "high"],
     [clustered |-> "unknown", distributed |-> "high", seasonal |-> "moderate"]}

\* ---- SolarGapAnalyzer._bin_gap_lengths --------------------------------------
gap_length_bins == <<1, 2, 3, 6, 12, 24, 48, 168, 1000>>
gap_length_labels == <<"1h", "2h", "3h", "6h", "12h", "1d", "2d", "1w", ">1w">>

\* np.histogram: bin i holds bins[i] <= v < bins[i+1], except the last bin,
\* which also holds its right edge; values outside the edges are not counted
InBin(v, bins, i) ==
    /\ bins[i] <= v
    /\ \/ v < bins[i + 1]
       \/ (i = Len(bins) - 1 /\ v = bins[i + 1])

Histogram(values, bins) ==
    [i \in 1..(Len(bins) - 1) |->
        Cardinality({k \in 1..Len(values) : InBin(values[k], bins, i)})]

\* the labels that become keys: one per bin (the ninth label, '>1w', is
\* never a key)
BinLabels == SubSeq(gap_length_labels, 1, Len(gap_length_bins) - 1)

bin_gap_lengths(lengths) ==
    LET hist == Histogram(lengths, gap_length_bins)
    IN  [l \in {BinLabels[i] : i \in 1..Len(BinLabels)} |->
            hist[CHOOSE i \in 1..Len(BinLabels) : BinLabels[i] = l]]

\* ---- gap lengths of the analysis ----------------------------------------
Rep(v, n) == [i \in 1..n |-> v]

\* a list with the given numbers of gaps of 1, 5, 6, 47, 48 and 168 rows
GapLengths(s1, s3, m6, m1d, l2d, l1w) ==
    Rep(1, s1) \o Rep(5, s3) \o Rep(6, m6) \o Rep(47, m1d) \o Rep(48, l2d) \o Rep(168, l1w)

\* single gaps on either side of every bin edge
EdgeLengths == {1, 2, 3, 5, 6, 11, 12, 23, 24, 48, 167, 168, 999, 1000, 1001, 1500}

\* an analysis reaches the recommender only with at least one gap
GapLengthLists ==
    ({GapLengths(s[1], s[2], m[1], m[2], l[1], l[2]) :
        s \in {<<0, 0>>, <<1, 0>>, <<0, 1>>, <<6, 1>>, <<62, 1>>},
        m \in {<<0, 0>>, <<1, 0>>, <<2, 1>>, <<26, 1>>},
        l \in {<<0, 0>>, <<1, 1>>, <<0, 27>>}} \ {<<>>})
    \cup {<<a>> : a \in EdgeLengths}
    \cup {<<1001, a>> : a \in {6, 1000, 1001}}

ParkedRec ==
    /\ patterns = <<>> /\ all_gap_lengths = <<>> /\ gap_dist = <<>>
    /\ recommendations = <<>> /\ rpc = "off"

InitRecommend ==
    /\ \E fts \in SeqsUpTo(ColumnPatterns, 2) :
         \E cr \in CrossLabels(Len(fts)), tm \in TemporalLabels :
            patterns = [cross |-> cr, temporal |-> tm, failure_types |-> fts]
    /\ all_gap_lengths \in GapLengthLists
    /\ gap_dist = <<>>
    /\ recommendations = <<>>
    /\ rpc = "analysis"

\* analyze_gaps_generic: overall_stats.gap_length_distribution
BinGaps ==
    /\ rpc = "analysis"
    /\ gap_dist' = bin_gap_lengths(all_gap_lengths)
    /\ rpc' = "input"
    /\ UNCHANGED <<patterns, all_gap_lengths, recommendations>>

Recommend ==
    /\ rpc = "input"
    /\ recommendations' = recommend_methods_generic(patterns, gap_dist)
    /\ rpc' = "done"
    /\ UNCHANGED <<patterns, all_gap_lengths, gap_dist>>

(***************************************************************************)
(* Frames.  A frame has n rows labelled 0..n-1 (the RangeIndex read_csv    *)
(* gives), an hour of day per row (from the time column) and the power     *)
(* columns "A" and "B".  No weather frame is supplied (no city given).     *)
(***************************************************************************)
FrameCols == {"A", "B"}
Rows(f) == 0..(f.n - 1)

\* values present in the generated frames, by row and column
GridValues == <<200, 500, -100, 0, 300, 100, 400>>
GridValue(i, c) == GridValues[((i * 3 + (IF c = "A" THEN 0 ELSE 2)) % 7) + 1]

\* rows whose value is missing, by missing pattern and column; in pattern 3
\* column B has values only in the thirteen middle rows of every 24
MissingRows(pat, c) ==
    IF pat = 0 THEN {}
    ELSE IF pat = 1 THEN (IF c = "A" THEN {1} ELSE {2})
    ELSE IF pat = 2 THEN (IF c = "A" THEN {1, 2} ELSE {2, 3})
    ELSE (IF c = "A" THEN {1} ELSE {i \in Nat : i % 24 \notin 6..18})

MakeFrame(n, t0, pat) ==
    [n    |-> n,
     hour |-> [i \in 0..(n - 1) |-> (t0 + i) % 24],
     val  |-> [c \in FrameCols |->
                 [i \in 0..(n - 1) |->
                     IF i \in MissingRows(pat, c) THEN NaN ELSE GridValue(i, c)]]]

\* frame sizes on either side of the data-sufficiency thresholds
FrameSizes == {5, 12, 51, 103}
StartHours == {0, 7}
MissingPatterns == {0, 1, 2, 3}
Frames == {MakeFrame(n, t0, pat) : n \in FrameSizes, t0 \in StartHours, pat \in MissingPatterns}

NotNaRows(f, c) == {i \in Rows(f) : ~IsNa(f.val[c][i])}
NaRows(f, c) == {i \in Rows(f) : IsNa(f.val[c][i])}
ColSet(pcs) == {pcs[k] : k \in 1..Len(pcs)}
\* df[power_columns].notna().all(axis=1)
CompleteRows(f, pcs) == {i \in Rows(f) : \A c \in ColSet(pcs) : ~IsNa(f.val[c][i])}

\* the values a fitted regressor or spline may predict, and the prediction
\* of one call: any of them per cell (seed picks the assignment)
PredValues == <<-140, 0, 320>>
PredSeeds == {0, 1, 2}
Predict(seed, i, c) == PredValues[((seed + i + (IF c = "A" THEN 0 ELSE 1)) % 3) + 1]

\* f with the cells of column c at the rows in S replaced by new[i]
FillCells(f, c, S, new(_)) ==
    [f EXCEPT !.val[c] = [i \in Rows(f) |-> IF i \in S THEN new(i) ELSE f.val[c][i]]]

(***************************************************************************)
(* BaseInterpolator.apply_solar_constraints                                *)
(***************************************************************************)
NightLow == 5     \* hour <= 5 is night
NightHigh == 19   \* hour >= 19 is night
IsNight(h) == h <= NightLow \/ h >= NightHigh

\* Series.clip(lower=0): NaN stays NaN
ClipLower(v) == IF IsNa(v) THEN v ELSE Max2(v, 0)
\* Series.clip(upper=limit)
ClipUpper(v, limit) == IF IsNa(v) THEN v ELSE Min2(v, limit)

ConstrainCellNoClip(f, i, v) == IF IsNight(f.hour[i]) THEN 0 ELSE v
ConstrainCell(f, i, v) == ClipLower(IF IsNight(f.hour[i]) THEN 0 ELSE v)

\* a post-processor that also derates the constrained values by 5%
apply_solar_constraints_derated(f, pcs) ==
    [f EXCEPT !.val = [c \in FrameCols |->
        IF c \in ColSet(pcs)
        THEN [i \in Rows(f) |->
                LET v == ConstrainCell(f, i, f.val[c][i])
                IN  IF IsNa(v) THEN v ELSE (v * 95) \div 100]
        ELSE f.val[c]]]

apply_solar_constraints(f, pcs) ==
    [f EXCEPT !.val = [c \in FrameCols |->
        IF c \in ColSet(pcs)
        THEN [i \in Rows(f) |-> ConstrainCell(f, i, f.val[c][i])]
        ELSE f.val[c]]]

(***************************************************************************)
(* Strategy instances.  kind is the class; has_config / block model the    *)
(* interpolation_config argument of MultiOutputRegressionInterpolator and  *)
(* its 'multi_output_regression' configuration block.                      *)
(***************************************************************************)
Kinds == {"Spline", "GP", "Physics", "MultiOutput"}

NoModel == [shape |-> "None", cols |-> {}, extra |-> {}]

FreshInstance(kind, has_config, block) ==
    [kind |-> kind,
     has_config |-> has_config,
     block |-> block,
     is_fitted |-> FALSE,
     metadata |-> "",
     gp_models |-> {},
     system_parameters |-> <<>>,
     model |-> NoModel]

\* ---- SplineInterpolator ---------------------------------------------------
SplineMinPoints == 3    \* mask.sum() > 3

SplineFit(inst) == [inst EXCEPT !.is_fitted = TRUE, !.metadata = "cubic_spline"]

RECURSIVE SplineFill(_, _, _)
SplineFill(f, cols, seed) ==
    IF cols = {} THEN f
    ELSE LET c == CHOOSE x \in cols : TRUE
             g == IF Cardinality(NotNaRows(f, c)) > SplineMinPoints
                  THEN LET new(i) == Predict(seed, i, c)
                       IN  FillCells(f, c, NaRows(f, c), new)
                  ELSE f
         IN  SplineFill(g, cols \ {c}, seed)

SplineInterpolate(inst, f, pcs, seed) ==
    [raised |-> "none",
     frame |-> apply_solar_constraints(SplineFill(f, ColSet(pcs), seed), pcs)]

\* ---- GaussianProcessInterpolator ------------------------------------------
GPMinCases == 10    \* complete_mask.sum() > 10

GPFit(inst, f, pcs) ==
    [inst EXCEPT
        !.gp_models = inst.gp_models \cup
            {c \in ColSet(pcs) : Cardinality(NotNaRows(f, c)) > GPMinCases},
        !.is_fitted = TRUE,
        !.metadata = "gaussian_process"]

RECURSIVE ModelFill(_, _, _)
ModelFill(f, cols, seed) ==
    IF cols = {} THEN f
    ELSE LET c == CHOOSE x \in cols : TRUE
             new(i) == Predict(seed, i, c)
         IN  ModelFill(FillCells(f, c, NaRows(f, c), new), cols \ {c}, seed)

GPInterpolate(inst, f, pcs, seed) ==
    IF ~inst.is_fitted
    THEN [raised |-> "ValueError", frame |-> f]
    ELSE [raised |-> "none",
          frame |-> apply_solar_constraints(
                        ModelFill(f, ColSet(pcs) \cap inst.gp_models, seed), pcs)]

\* ---- PhysicsBasedInterpolator ---------------------------------------------
DayStart == 6     \* daytime hours are 6..18
DayEnd == 18
IsDaytime(h) == h >= DayStart /\ h <= DayEnd

DaytimeRows(f, c) == {i \in NotNaRows(f, c) : IsDaytime(f.hour[i])}

\* the k-th smallest (k from 0) of the values of column c at rows S
KthSmallest(f, c, S, k) ==
    CHOOSE v \in {f.val[c][i] : i \in S} :
        /\ Cardinality({i \in S : f.val[c][i] < v}) <= k
        /\ k < Cardinality({i \in S : f.val[c][i] <= v})

\* Series.quantile(0.95), linear interpolation between order statistics
Quantile95(f, c, S) ==
    LET m    == Cardinality(S)
        pos  == 95 * (m - 1)
        lo   == pos \div 100
        frac == pos % 100
        vlo  == KthSmallest(f, c, S, lo)
        vhi  == KthSmallest(f, c, S, Min2(lo + 1, m - 1))
    IN  vlo + (frac * (vhi - vlo)) \div 100

\* Series.idxmax(): the index label of the first maximum
IdxMax(f, c, S) ==
    CHOOSE i \in S :
        /\ \A j \in S : f.val[c][j] <= f.val[c][i]
        /\ \A j \in S : f.val[c][j] = f.val[c][i] => i <= j

\* the sum of column c over the rows of S between labels lo and hi
RECURSIVE SumVals(_, _, _, _, _)
SumVals(f, c, S, lo, hi) ==
    IF lo > hi THEN 0
    ELSE IF lo = hi THEN (IF lo \in S THEN f.val[c][lo] ELSE 0)
    ELSE LET mid == (lo + hi) \div 2
         IN  SumVals(f, c, S, lo, mid) + SumVals(f, c, S, mid + 1, hi)

PhysicsParams(f, c) ==
    LET S == DaytimeRows(f, c)
    IN  [max_capacity |-> Quantile95(f, c, S),
         mean_daytime |-> <<SumVals(f, c, S, 0, f.n - 1), Cardinality(S)>>,
         peak_hour |-> IdxMax(f, c, S)]

PhysicsFit(inst, f, pcs) ==
    LET fitted == {c \in ColSet(pcs) : DaytimeRows(f, c) # {}}
        keep   == DOMAIN inst.system_parameters \ fitted
    IN  [inst EXCEPT
            !.system_parameters =
                [c \in fitted \cup keep |->
                    IF c \in fitted THEN PhysicsParams(f, c) ELSE inst.system_parameters[c]],
            !.is_fitted = TRUE,
            !.metadata = "physics_based"]

\* max(0, cos(d * pi / 6)) in thousandths, d an integer number of hours;
\* the cosine is positive only within 3 hours of the peak, and the residue
\* of double arithmetic at d = 3 (about 6e-17) is 0 on this grid
CosMilli == <<1000, 866, 500, 0, 0, 0, 0, 0, 0, 0, 500, 866>>
CosPos(d) == CosMilli[(d % 12) + 1]

\* calculate_theoretical_solar_curve at one hour, on the value grid
calculate_theoretical_solar_curve(hour, max_capacity, peak_hour) ==
    IF IsDaytime(hour)
    THEN IF max_capacity >= 0
         THEN (max_capacity * CosPos(hour - peak_hour)) \div 1000
         ELSE -(((-max_capacity) * CosPos(hour - peak_hour)) \div 1000)
    ELSE 0

\* whether the curve's value at one hour is > 0 in double arithmetic, for
\* hours at most 12 from the peak: np.cos gives 6.1e-17 at 3 hours from the
\* peak (argument +-pi/2) and -1.8e-16 at 9 hours
CurvePositive(hour, max_capacity, peak_hour) ==
    LET d == hour - peak_hour
    IN  /\ IsDaytime(hour)
        /\ max_capacity > 0
        /\ (CosPos(d) > 0 \/ d = 3 \/ d = -3)

RECURSIVE PhysicsFill(_, _, _)
PhysicsFill(f, cols, params) ==
    IF cols = {} THEN f
    ELSE LET c == CHOOSE x \in cols : TRUE
             new(i) == calculate_theoretical_solar_curve(
                           f.hour[i], params[c].max_capacity, params[c].peak_hour)
         IN  PhysicsFill(FillCells(f, c, NaRows(f, c), new), cols \ {c}, params)

PhysicsInterpolate(inst, f, pcs) ==
    IF ~inst.is_fitted
    THEN [raised |-> "ValueError", frame |-> f]
    ELSE [raised |-> "none",
          frame |-> apply_solar_constraints(
                        PhysicsFill(f, ColSet(pcs) \cap DOMAIN inst.system_parameters,
                                    inst.system_parameters), pcs)]

\* ---- MultiOutputRegressionInterpolator ------------------------------------
CorrMinRows == 50       \* fewer than 50 target rows: the column is skipped
IndepMinRows == 100     \* complete_mask.sum() > 100

\* fit(): the mode flags read from the configuration block
FitModelIndependently(inst) == Get(inst.block, "model_equipment_independently", TRUE)
FitUseCorrelation(inst) == Get(inst.block, "use_equipment_correlation", FALSE)
FitMode(inst) ==
    IF FitModelIndependently(inst) /\ FitUseCorrelation(inst) THEN "a"
    ELSE IF FitModelIndependently(inst) THEN "b"
    ELSE "c"

\* ---- feature columns of mode (a) ------------------------------------------
\* A feature column is [col, kind]: a frame column itself (kind "raw"), a
\* column '{col}_{kind}' derived from frame column col, or a time feature
\* (col = "").  The frame columns here are single capital letters and every
\* kind is lower case, so a feature name contains a column name exactly
\* when the feature is that column or is derived from it.
TimeFeatures ==
    {"hour", "day_of_year", "month", "day_of_week", "is_weekend",
     "hour_sin", "hour_cos", "day_sin", "day_cos"}
HistoryKinds == {"hist_1h", "hist_2h", "hist_3h", "hist_mean_6h", "hist_std_6h"}
CorrelationKinds ==
    HistoryKinds \cup {"available", "available_lag1", "correlation_strength"}

\* method_config.get('correlation_features', power_columns)
CorrelationFeatures(inst, pcs) == Get(inst.block, "correlation_features", pcs)

\* the numeric columns of df_with_correlation built for one target
DfWithCorrelationColumns(pcs, target, correlation_features) ==
    {[col |-> "", kind |-> k] : k \in TimeFeatures}
    \cup {[col |-> c, kind |-> "raw"] : c \in FrameCols}
    \cup {[col |-> c, kind |-> k] :
            c \in (ColSet(correlation_features) \cap FrameCols) \ {target},
            k \in CorrelationKinds}

\* `power_col in col`
NameContains(feature, power_col) == feature.col = power_col

\* _get_feature_columns: only the excluded names themselves are dropped
get_feature_columns(columns, exclude) ==
    {x \in columns : ~(x.kind = "raw" /\ x.col \in ColSet(exclude))}
\* _get_safe_feature_columns: also drops every column whose name contains
\* the name of an excluded column
get_safe_feature_columns(columns, exclude) ==
    {x \in columns :
        /\ ~(x.kind = "raw" /\ x.col \in ColSet(exclude))
        /\ ~\E pc \in ColSet(exclude) : NameContains(x, pc)}

\* df[col].shift(k).fillna(0) at row t
ShiftFill0(f, c, t, k) ==
    IF t - k >= 0 /\ ~IsNa(f.val[c][t - k]) THEN f.val[c][t - k] ELSE 0

RollingWindow == 6    \* rolling(window=6, min_periods=1)

\* the value of one feature at row t of frame f.  Rolling mean and std are
\* given by the window of values they are computed from, the correlation
\* strength by the joint rows it is computed from (0.0 up to 10 such rows).
CorrMinJointRows == 10    \* len(train_data) > 10
FeatureValue(f, x, t, target) ==
    IF x.col = "" THEN (IF x.kind \in {"hour", "hour_sin", "hour_cos"} THEN f.hour[t] ELSE t)
    ELSE IF x.kind = "raw" THEN f.val[x.col][t]
    ELSE IF x.kind = "hist_1h" THEN ShiftFill0(f, x.col, t, 1)
    ELSE IF x.kind = "hist_2h" THEN ShiftFill0(f, x.col, t, 2)
    ELSE IF x.kind = "hist_3h" THEN ShiftFill0(f, x.col, t, 3)
    ELSE IF x.kind \in {"hist_mean_6h", "hist_std_6h"}
    THEN [j \in 1..RollingWindow |-> IF t - j >= 0 THEN f.val[x.col][t - j] ELSE NaN]
    ELSE IF x.kind = "available" THEN (IF IsNa(f.val[x.col][t]) THEN 0 ELSE 1)
    ELSE IF x.kind = "available_lag1"
    THEN (IF t - 1 >= 0 /\ ~IsNa(f.val[x.col][t - 1]) THEN 1 ELSE 0)
    ELSE LET joint == NotNaRows(f, target) \cap NotNaRows(f, x.col)
         IN  IF Cardinality(joint) > CorrMinJointRows
             THEN {<<i, f.val[target][i], f.val[x.col][i]>> : i \in joint}
             ELSE {}

\* the row of X for one target at row t
FeatureVector(f, feature_cols, t, target) ==
    [x \in feature_cols |-> FeatureValue(f, x, t, target)]

\* feature_cols of the model trained for one target
TargetFeatureCols(inst, pcs, target) ==
    get_safe_feature_columns(
        DfWithCorrelationColumns(pcs, target, CorrelationFeatures(inst, pcs)), pcs)

\* _get_safe_feature_columns: the numeric frame columns that are not power
\* columns and do not contain a power column's name become features
SafeExtraFeatures(pcs) ==
    {c \in FrameCols : c \notin ColSet(pcs)}

\* _fit_independent_with_correlation
FitIndependentWithCorrelation(inst, f, pcs) ==
    LET extra == SafeExtraFeatures(pcs)
        clean(c) == {i \in NotNaRows(f, c) : \A e \in extra : ~IsNa(f.val[e][i])}
        trained == {c \in ColSet(pcs) :
                       /\ ~(Cardinality(NotNaRows(f, c)) < CorrMinRows)
                       /\ ~(Cardinality(clean(c)) < CorrMinRows)}
    IN  [raised |-> "none",
         inst |-> [inst EXCEPT
                     !.model = [shape |-> "dict_of_dicts", cols |-> trained, extra |-> extra,
                                feature_cols |->
                                    [c \in trained |-> TargetFeatureCols(inst, pcs, c)]],
                     !.is_fitted = TRUE,
                     !.metadata = "multi_output_lgb_with_safe_correlation"]]

\* _fit_independent_models
FitIndependentModels(inst, f, pcs) ==
    [raised |-> "none",
     inst |-> [inst EXCEPT
                 !.model = IF Cardinality(CompleteRows(f, pcs)) > IndepMinRows
                           THEN [shape |-> "dict_of_models", cols |-> ColSet(pcs), extra |-> {}]
                           ELSE inst.model,
                 !.is_fitted = TRUE,
                 !.metadata = "multi_output_lgb"]]

\* _fit_multi_output_model: one LGBMRegressor fitted on a target with one
\* column per power column; the regressor takes a one-dimensional target
\* and rejects a wider one with ValueError after self.model was assigned
FitMultiOutputModel(inst, f, pcs) ==
    IF Cardinality(CompleteRows(f, pcs)) > IndepMinRows
    THEN IF Len(pcs) > 1
         THEN [raised |-> "ValueError",
               inst |-> [inst EXCEPT
                           !.model = [shape |-> "single", cols |-> {}, extra |-> {}]]]
         ELSE [raised |-> "none",
               inst |-> [inst EXCEPT
                           !.model = [shape |-> "single", cols |-> ColSet(pcs), extra |-> {}],
                           !.is_fitted = TRUE,
                           !.metadata = "multi_output_lgb_single_model"]]
    ELSE [raised |-> "none",
          inst |-> [inst EXCEPT !.is_fitted = TRUE,
                                !.metadata = "multi_output_lgb_single_model"]]

MultiOutputFit(inst, f, pcs) ==
    IF FitMode(inst) = "a" THEN FitIndependentWithCorrelation(inst, f, pcs)
    ELSE IF FitMode(inst) = "b" THEN FitIndependentModels(inst, f, pcs)
    ELSE FitMultiOutputModel(inst, f, pcs)

\* InterpolationConfig.get_solar_constraints
SolarConstraints(inst) == Get(inst.block, "solar_constraints", <<>>)
NighttimeZero(inst) == Get(SolarConstraints(inst), "nighttime_zero", TRUE)
NegativeClipping(inst) == Get(SolarConstraints(inst), "negative_clipping", TRUE)
MaxPowerLimits(inst) == Get(SolarConstraints(inst), "max_power_limits", <<>>)
FullEfficiency == 100     \* max_efficiency 1.0, in hundredths
MaxEfficiency(inst) == Get(SolarConstraints(inst), "max_efficiency", FullEfficiency)

ConfiguredCell(inst, f, c, i, v) ==
    LET v1 == IF NighttimeZero(inst) /\ IsNight(f.hour[i]) THEN 0 ELSE v
        v2 == IF NegativeClipping(inst) THEN ClipLower(v1) ELSE v1
        v3 == IF c \in DOMAIN MaxPowerLimits(inst)
              THEN ClipUpper(v2, MaxPowerLimits(inst)[c]) ELSE v2
    IN  IF MaxEfficiency(inst) < FullEfficiency /\ ~IsNa(v3)
        THEN (v3 * MaxEfficiency(inst)) \div FullEfficiency
        ELSE v3

\* a post-processor that applies the hardcoded defaults after the configured
\* constraints
apply_configuration_and_default_constraints(inst, f, pcs) ==
    apply_solar_constraints(
        [f EXCEPT !.val = [c \in FrameCols |->
            IF c \in ColSet(pcs)
            THEN [i \in Rows(f) |-> ConfiguredCell(inst, f, c, i, f.val[c][i])]
            ELSE f.val[c]]], pcs)

apply_configuration_solar_constraints(inst, f, pcs) ==
    [f EXCEPT !.val = [c \in FrameCols |->
        IF c \in ColSet(pcs)
        THEN [i \in Rows(f) |-> ConfiguredCell(inst, f, c, i, f.val[c][i])]
        ELSE f.val[c]]]

\* `not self.model`: None and the empty dict are falsy
ModelFalsy(m) == m.shape = "None" \/ (m.shape = "dict_of_dicts" /\ m.cols = {})

\* a call passing `extra` positional arguments beyond (df, power_columns,
\* time_column) is accepted only by the class whose methods take
\* weather_data
AcceptsExtra(kind, extra) == kind = "MultiOutput" \/ extra = 0

\* the fallback builds SplineInterpolator() and calls its fit and
\* interpolate with (df, power_columns, time_column, weather_data)
MultiOutputFallback(f, pcs, seed) ==
    IF ~AcceptsExtra("Spline", 1)
    THEN [raised |-> "TypeError", frame |-> f]
    ELSE SplineInterpolate(SplineFit(FreshInstance("Spline", FALSE, <<>>)), f, pcs, seed)

MissingMaskRows(f, pcs) == Rows(f) \ CompleteRows(f, pcs)

\* interpolate(): the mode flags read through InterpolationConfig, whose
\* should_model_independently and should_use_correlation both default to
\* False
InterpolateModelIndependently(inst) ==
    Get(inst.block, "model_equipment_independently", FALSE)
InterpolateUseCorrelation(inst) == Get(inst.block, "use_equipment_correlation", FALSE)
InterpolateAddsCorrelation(inst) ==
    inst.has_config /\ InterpolateUseCorrelation(inst) /\ InterpolateModelIndependently(inst)

\* get_correlation_features(...), replaced by power_columns when empty
InterpolateCorrelationFeatures(inst, pcs) ==
    LET listed == Get(inst.block, "correlation_features", <<>>)
    IN  IF listed = <<>> THEN pcs ELSE listed

\* the columns of df_features when the models predict
InterpolateFeatureColumns(inst, pcs) ==
    {[col |-> "", kind |-> k] : k \in TimeFeatures}
    \cup {[col |-> c, kind |-> "raw"] : c \in FrameCols}
    \cup (IF InterpolateAddsCorrelation(inst)
          THEN {[col |-> c, kind |-> k] :
                  c \in {x \in ColSet(InterpolateCorrelationFeatures(inst, pcs)) \cap FrameCols :
                            \E target \in ColSet(pcs) : x # target},
                  k \in CorrelationKinds}
          ELSE {})

\* df_features.loc[col_missing_mask, feature_cols] raises KeyError when a
\* model's feature column was not built
MissingFeatureColumn(inst, f, pcs) ==
    /\ inst.model.shape = "dict_of_dicts"
    /\ \E c \in ColSet(pcs) \cap inst.model.cols :
          /\ NaRows(f, c) # {}
          /\ ~(inst.model.feature_cols[c] \subseteq InterpolateFeatureColumns(inst, pcs))

MultiOutputInterpolate(inst, f, pcs, seed) ==
    IF ~inst.is_fitted \/ ModelFalsy(inst.model)
    THEN MultiOutputFallback(f, pcs, seed)
    ELSE IF MissingMaskRows(f, pcs) # {} /\ inst.model.shape = "single"
    THEN [raised |-> "TypeError", frame |-> f]
    ELSE IF MissingMaskRows(f, pcs) # {} /\ MissingFeatureColumn(inst, f, pcs)
    THEN [raised |-> "KeyError", frame |-> f]
    ELSE LET filled == IF MissingMaskRows(f, pcs) = {} THEN f
                       ELSE IF inst.model.shape = "dict_of_dicts"
                       THEN ModelFill(f, ColSet(pcs) \cap inst.model.cols, seed)
                       ELSE ModelFill(f, ColSet(pcs), seed)
         IN  [raised |-> "none",
              frame |-> IF inst.has_config
                        THEN apply_configuration_solar_constraints(inst, filled, pcs)
                        ELSE apply_solar_constraints(filled, pcs)]

\* ---- the calls a caller can make on an instance ---------------------------
StrategyFit(inst, f, pcs, extra) ==
    IF ~AcceptsExtra(inst.kind, extra)
    THEN [raised |-> "TypeError", inst |-> inst]
    ELSE IF inst.kind = "Spline" THEN [raised |-> "none", inst |-> SplineFit(inst)]
    ELSE IF inst.kind = "GP" THEN [raised |-> "none", inst |-> GPFit(inst, f, pcs)]
    ELSE IF inst.kind = "Physics" THEN [raised |-> "none", inst |-> PhysicsFit(inst, f, pcs)]
    ELSE MultiOutputFit(inst, f, pcs)

StrategyInterpolate(inst, f, pcs, seed, extra) ==
    IF ~AcceptsExtra(inst.kind, extra)
    THEN [raised |-> "TypeError", frame |-> f]
    ELSE IF inst.kind = "Spline" THEN SplineInterpolate(inst, f, pcs, seed)
    ELSE IF inst.kind = "GP" THEN GPInterpolate(inst, f, pcs, seed)
    ELSE IF inst.kind = "Physics" THEN PhysicsInterpolate(inst, f, pcs)
    ELSE MultiOutputInterpolate(inst, f, pcs, seed)

(***************************************************************************)
(* A caller holding one strategy instance, one frame and one list of       *)
(* power columns, calling fit and interpolate in any order.                *)
(***************************************************************************)
\* 'multi_output_regression' configuration blocks
BlockA == [model_equipment_independently |-> TRUE, use_equipment_correlation |-> TRUE]
BlockC == [model_equipment_independently |-> FALSE, use_equipment_correlation |-> FALSE]
BlockCorrOnly == [use_equipment_correlation |-> TRUE]
BlockRecommended ==
    Configuration([model_equipment_independently |-> TRUE,
                   use_equipment_correlation |-> TRUE], 2).multi_output_regression
BlockCustom ==
    [model_equipment_independently |-> TRUE,
     use_equipment_correlation |-> FALSE,
     solar_constraints |-> [nighttime_zero |-> FALSE,
                            negative_clipping |-> FALSE,
                            max_power_limits |-> [A |-> 300],
                            max_efficiency |-> 50]]
BlockCorrB ==
    [model_equipment_independently |-> TRUE, use_equipment_correlation |-> TRUE,
     correlation_features |-> <<"B">>]
BlockNightOnly ==
    [model_equipment_independently |-> TRUE,
     use_equipment_correlation |-> FALSE,
     solar_constraints |-> [nighttime_zero |-> TRUE, negative_clipping |-> FALSE]]
BlockClipOnly ==
    [model_equipment_independently |-> TRUE,
     use_equipment_correlation |-> TRUE,
     solar_constraints |-> [nighttime_zero |-> FALSE,
                            negative_clipping |-> TRUE,
                            max_power_limits |-> [B |-> 250]]]
BlockCorrOnlyB == [use_equipment_correlation |-> TRUE, correlation_features |-> <<"B">>]
Blocks == {<<>>, BlockA, BlockC, BlockCorrOnly, BlockRecommended, BlockCustom, BlockCorrB,
           BlockNightOnly, BlockClipOnly, BlockCorrOnlyB}

FreshInstances ==
    {FreshInstance(k, FALSE, <<>>) : k \in Kinds}
    \cup {FreshInstance("MultiOutput", TRUE, b) : b \in Blocks}

PowerColumnChoices == {<<"A">>, <<"A", "B">>}

NoCall == [op |-> "none", raised |-> "none"]

ParkedStrategy == stg = <<>> /\ last = <<>>

InitStrategy ==
    /\ stg \in [inst : FreshInstances, frame : Frames, pcs : PowerColumnChoices,
                fit_called : {FALSE}]
    /\ last = NoCall

\* instance.fit(frame, power_columns, time_column)
Fit ==
    LET r == StrategyFit(stg.inst, stg.frame, stg.pcs, 0)
    IN  /\ stg' = [stg EXCEPT !.inst = r.inst, !.fit_called = TRUE]
        /\ last' = [op |-> "fit", raised |-> r.raised]

\* a later instance.fit(frame, power_columns, time_column) on another frame,
\* a short extract; the caller goes on with that frame
LaterFrames == {MakeFrame(5, t0, 1) : t0 \in StartHours}
FitAgain ==
    /\ stg.fit_called
    /\ \E f \in LaterFrames :
          LET r == StrategyFit(stg.inst, f, stg.pcs, 0)
          IN  /\ f # stg.frame
              /\ stg' = [stg EXCEPT !.inst = r.inst, !.frame = f]
              /\ last' = [op |-> "fit", raised |-> r.raised]

\* instance.interpolate(frame, power_columns, time_column)
Interpolate ==
    \E seed \in PredSeeds :
        LET r == StrategyInterpolate(stg.inst, stg.frame, stg.pcs, seed, 0)
        IN  /\ last' = [op |-> "interpolate", raised |-> r.raised,
                        frame |-> r.frame, seed |-> seed]
            /\ UNCHANGED stg

\* instance.apply_solar_constraints(frame, power_columns, time_column), on
\* the caller's frame or on the frame the previous call returned
ApplySolarConstraints ==
    LET again == last.op = "apply_solar_constraints"
        input == IF again THEN last.frame ELSE stg.frame
        times == IF again THEN last.times + 1 ELSE 1
    IN  /\ times <= MaxApplications
        /\ last' = [op |-> "apply_solar_constraints", raised |-> "none",
                    frame |-> apply_solar_constraints(input, stg.pcs), times |-> times]
        /\ UNCHANGED stg

\* instance.calculate_theoretical_solar_curve(hours, max_capacity, peak_hour)
\* on a physics instance, one hour of the array at a time
CurveCapacities == {500}
CurvePeakHours == {9, 12, 15}
TheoreticalCurve ==
    /\ stg.inst.kind = "Physics"
    /\ \E hour \in 0..23 : \E max_capacity \in CurveCapacities :
       \E peak_hour \in CurvePeakHours :
          last' = [op |-> "calculate_theoretical_solar_curve", raised |-> "none",
                   hour |-> hour, max_capacity |-> max_capacity, peak_hour |-> peak_hour,
                   power |-> calculate_theoretical_solar_curve(hour, max_capacity, peak_hour),
                   positive |-> CurvePositive(hour, max_capacity, peak_hour)]
    /\ UNCHANGED stg

(***************************************************************************)
(* InterpolationEngine                                                     *)
(***************************************************************************)
PyNone == "<None>"
\* truth value of an optional string: None and '' are falsy
TruthyStr(x) == x # PyNone /\ x # ""

\* InterpolationEngine.__init__: method name -> strategy class
Interpolators ==
    [spline_interpolation |-> "Spline",
     gaussian_process |-> "GP",
     physics_based_model |-> "Physics",
     multi_output_regression |-> "MultiOutput",
     system_level_interpolation |-> "MultiOutput",
     degradation_aware_interpolation |-> "GP",
     maintenance_aware_interpolation |-> "Physics",
     equipment_specific_interpolation |-> "Spline"]

\* extract_data_structure
extract_data_structure(structure) ==
    [time_column |-> Get(structure, "time_column", PyNone),
     power_columns |-> Get(structure, "power_columns", <<>>)]

\* `not time_column or not power_columns`
StructureMissingBoth(st) == ~TruthyStr(st.time_column) /\ st.power_columns = <<>>
StructureMissing(st) == ~TruthyStr(st.time_column) \/ st.power_columns = <<>>

\* a value of recommendations['primary_methods']: a list of names, or a
\* value of another type
ListOf(items) == [is_list |-> TRUE, items |-> items]
NotAList == [is_list |-> FALSE, items |-> <<>>]

\* get_recommended_method, as Python parses its conditional expression:
\* (primary_method or primary_methods[0]) if primary_methods is a list
\* else 'spline_interpolation'
get_recommended_method(recs, user_method) ==
    IF TruthyStr(user_method) THEN [raised |-> "none", method |-> user_method]
    ELSE IF "primary_methods" \in DOMAIN recs /\ recs.primary_methods.is_list
    THEN IF TruthyStr(Get(recs, "primary_method", PyNone))
         THEN [raised |-> "none", method |-> recs.primary_method]
         ELSE IF recs.primary_methods.items = <<>>
         THEN [raised |-> "IndexError", method |-> PyNone]
         ELSE [raised |-> "none", method |-> recs.primary_methods.items[1]]
    ELSE [raised |-> "none", method |-> "spline_interpolation"]

\* the ascending list of the members of a set of row labels in lo..hi
RECURSIVE SortedRange(_, _, _)
SortedRange(S, lo, hi) ==
    IF lo > hi THEN <<>>
    ELSE IF lo = hi THEN (IF lo \in S THEN <<lo>> ELSE <<>>)
    ELSE LET mid == (lo + hi) \div 2
         IN  SortedRange(S, lo, mid) \o SortedRange(S, mid + 1, hi)
\* df[complete_mask].index.tolist(): labels in frame order
SortedSeq(S, n) == SortedRange(S, 0, n - 1)

RECURSIVE GCD(_, _)
GCD(a, b) == IF b = 0 THEN a ELSE GCD(b, a % b)

MinCompleteRows == 20        \* len(complete_indices) < 20: no split
MinValidationPoints == 10    \* max(10, ...)
ValidationPercent == 15      \* validation_ratio = 0.15

\* np.random.seed(42); np.random.permutation(m): the generator is reseeded
\* on every call, so the permutation depends on m alone.  Row m - 19 holds
\* the first 15 entries (0-based positions) of the permutation of m items
\* that MT19937 seeded with 42 produces, for m = 20..103.
SeededPermutationHeads == <<
    <<0, 17, 15, 1, 8, 5, 11, 3, 18, 16, 13, 2, 9, 19, 4>>,
    <<0, 17, 15, 1, 8, 5, 11, 3, 18, 16, 13, 2, 9, 20, 4>>,
    <<0, 13, 8, 1, 15, 5, 20, 11, 3, 4, 17, 12, 18, 16, 2>>,
    <<15, 9, 0, 8, 17, 12, 1, 13, 5, 2, 11, 20, 3, 4, 18>>,
    <<8, 16, 0, 18, 11, 9, 13, 1, 21, 5, 2, 12, 15, 3, 4>>,
    <<8, 16, 0, 23, 11, 9, 13, 1, 22, 5, 2, 12, 15, 3, 4>>,
    <<8, 16, 0, 24, 11, 9, 13, 1, 23, 5, 2, 12, 15, 3, 4>>,
    <<8, 13, 9, 21, 0, 11, 16, 17, 12, 24, 1, 4, 5, 2, 15>>,
    <<9, 25, 8, 21, 0, 12, 17, 22, 11, 13, 15, 1, 4, 5, 2>>,
    <<27, 16, 12, 22, 8, 9, 21, 0, 26, 13, 15, 11, 17, 1, 4>>,
    <<27, 15, 23, 17, 8, 9, 28, 24, 12, 0, 4, 16, 5, 13, 11>>,
    <<27, 15, 23, 17, 8, 9, 29, 24, 12, 0, 4, 16, 5, 13, 11>>,
    <<29, 15, 24, 17, 8, 9, 30, 25, 12, 0, 4, 16, 5, 13, 11>>,
    <<31, 15, 26, 17, 8, 9, 19, 21, 12, 0, 4, 16, 5, 13, 11>>,
    <<15, 19, 27, 26, 8, 24, 21, 12, 32, 9, 0, 4, 16, 17, 5>>,
    <<26, 13, 24, 21, 15, 29, 19, 12, 8, 16, 9, 33, 0, 4, 17>>,
    <<35, 13, 26, 30, 16, 31, 21, 12, 8, 17, 9, 34, 0, 4, 29>>,
    <<17, 13, 4, 29, 35, 25, 6, 26, 24, 16, 8, 15, 12, 32, 9>>,
    <<33, 36, 4, 13, 30, 26, 6, 27, 24, 15, 17, 8, 16, 12, 19>>,
    <<33, 36, 4, 13, 30, 26, 6, 27, 24, 15, 17, 8, 16, 12, 19>>,
    <<19, 16, 15, 26, 4, 12, 37, 27, 39, 6, 25, 9, 13, 31, 34>>,
    <<24, 13, 8, 25, 4, 40, 19, 39, 29, 6, 26, 12, 17, 9, 15>>,
    <<25, 13, 8, 26, 4, 39, 19, 29, 30, 6, 27, 12, 17, 9, 15>>,
    <<37, 24, 25, 36, 34, 39, 4, 12, 8, 3, 6, 27, 31, 19, 17>>,
    <<37, 24, 25, 36, 34, 40, 4, 12, 8, 3, 6, 27, 31, 19, 17>>,
    <<39, 25, 26, 43, 35, 41, 4, 12, 8, 3, 6, 24, 32, 19, 17>>,
    <<39, 25, 26, 44, 35, 41, 4, 12, 8, 3, 6, 24, 32, 19, 17>>,
    <<27, 39, 26, 43, 24, 36, 12, 19, 4, 25, 8, 3, 6, 40, 33>>,
    <<27, 40, 26, 43, 24, 37, 12, 19, 4, 25, 8, 3, 6, 39, 33>>,
    <<13, 45, 47, 44, 17, 27, 26, 25, 31, 19, 12, 4, 34, 8, 3>>,
    <<13, 39, 30, 45, 17, 48, 26, 25, 32, 19, 12, 4, 37, 8, 3>>,
    <<43, 40, 46, 12, 24, 31, 17, 32, 3, 30, 13, 8, 49, 6, 47>>,
    <<19, 41, 47, 12, 43, 5, 17, 50, 3, 32, 13, 8, 26, 6, 34>>,
    <<19, 41, 47, 12, 43, 5, 17, 50, 3, 32, 13, 8, 26, 6, 34>>,
    <<19, 49, 48, 12, 44, 5, 17, 52, 3, 32, 13, 8, 26, 6, 34>>,
    <<31, 5, 32, 13, 19, 49, 41, 26, 43, 12, 52, 3, 33, 34, 8>>,
    <<0, 5, 33, 13, 19, 50, 36, 26, 44, 12, 54, 3, 34, 30, 8>>,
    <<0, 5, 30, 13, 34, 55, 27, 31, 45, 12, 47, 3, 43, 26, 8>>,
    <<0, 5, 34, 13, 44, 52, 37, 25, 46, 12, 48, 3, 36, 31, 8>>,
    <<0, 5, 34, 13, 45, 53, 57, 25, 47, 12, 49, 3, 36, 31, 8>>,
    <<0, 5, 36, 45, 13, 54, 33, 48, 12, 57, 46, 50, 31, 3, 52>>,
    <<0, 5, 46, 31, 13, 55, 34, 49, 12, 40, 33, 59, 16, 3, 53>>,
    <<50, 56, 0, 57, 5, 48, 16, 12, 25, 59, 30, 9, 47, 13, 33>>,
    <<61, 57, 0, 43, 5, 36, 16, 12, 25, 60, 55, 9, 40, 13, 34>>,
    <<52, 58, 0, 44, 5, 36, 16, 12, 25, 61, 56, 9, 40, 13, 34>>,
    <<53, 60, 0, 45, 5, 61, 16, 12, 64, 30, 33, 9, 41, 13, 34>>,
    <<54, 62, 0, 45, 5, 63, 16, 12, 65, 30, 33, 9, 41, 13, 34>>,
    <<36, 16, 4, 9, 45, 40, 61, 5, 64, 12, 25, 59, 28, 0, 62>>,
    <<46, 16, 4, 9, 28, 41, 58, 5, 61, 12, 25, 65, 47, 0, 54>>,
    <<22, 0, 47, 4, 53, 18, 10, 33, 44, 12, 31, 9, 59, 5, 68>>,
    <<22, 0, 49, 4, 54, 18, 10, 33, 45, 12, 31, 9, 67, 5, 62>>,
    <<22, 0, 49, 4, 55, 18, 10, 33, 46, 12, 31, 9, 61, 5, 53>>,
    <<4, 62, 18, 0, 28, 50, 10, 34, 12, 54, 47, 31, 9, 45, 5>>,
    <<4, 63, 18, 0, 28, 72, 10, 34, 12, 55, 65, 31, 9, 45, 5>>,
    <<4, 63, 18, 0, 28, 73, 10, 34, 12, 55, 65, 31, 9, 45, 5>>,
    <<4, 63, 10, 0, 35, 61, 28, 12, 69, 64, 34, 42, 49, 18, 9>>,
    <<4, 35, 10, 0, 45, 47, 65, 53, 50, 28, 67, 70, 18, 12, 58>>,
    <<4, 35, 10, 0, 45, 47, 66, 53, 50, 28, 68, 74, 18, 12, 58>>,
    <<33, 0, 34, 12, 10, 77, 30, 4, 49, 66, 61, 22, 72, 54, 18>>,
    <<30, 0, 22, 31, 18, 28, 10, 70, 4, 12, 49, 33, 67, 35, 68>>,
    <<30, 0, 22, 31, 18, 28, 10, 70, 4, 12, 49, 33, 67, 35, 68>>,
    <<30, 0, 22, 31, 18, 28, 10, 70, 4, 12, 49, 33, 67, 35, 68>>,
    <<30, 0, 22, 31, 18, 28, 10, 53, 4, 12, 49, 33, 68, 35, 69>>,
    <<30, 0, 22, 31, 18, 28, 10, 53, 4, 12, 49, 33, 69, 35, 70>>,
    <<73, 0, 58, 22, 12, 70, 10, 18, 4, 65, 40, 47, 35, 81, 55>>,
    <<78, 0, 68, 22, 12, 82, 10, 18, 4, 66, 40, 47, 35, 72, 55>>,
    <<75, 0, 70, 22, 12, 56, 10, 18, 4, 67, 61, 64, 53, 73, 62>>,
    <<76, 0, 26, 22, 12, 67, 10, 18, 4, 68, 84, 65, 53, 80, 83>>,
    <<76, 0, 26, 22, 12, 67, 10, 18, 4, 68, 85, 65, 53, 80, 84>>,
    <<44, 53, 30, 12, 49, 0, 64, 18, 10, 22, 4, 33, 42, 80, 81>>,
    <<40, 22, 55, 70, 0, 26, 39, 65, 10, 44, 81, 35, 56, 86, 12>>,
    <<40, 22, 55, 88, 0, 26, 39, 66, 10, 44, 85, 35, 70, 62, 12>>,
    <<40, 22, 55, 72, 0, 26, 39, 67, 10, 44, 83, 35, 89, 62, 12>>,
    <<40, 22, 55, 72, 0, 26, 39, 67, 10, 44, 83, 35, 90, 62, 12>>,
    <<40, 22, 55, 72, 0, 26, 39, 67, 10, 44, 83, 35, 90, 62, 12>>,
    <<68, 22, 72, 73, 0, 26, 40, 42, 10, 45, 84, 55, 81, 47, 12>>,
    <<80, 77, 73, 94, 33, 79, 69, 42, 0, 10, 64, 30, 18, 4, 31>>,
    <<62, 40, 93, 18, 81, 83, 64, 42, 10, 0, 31, 75, 47, 26, 44>>,
    <<62, 40, 94, 18, 81, 83, 64, 42, 10, 0, 31, 75, 47, 26, 44>>,
    <<62, 40, 95, 18, 97, 84, 64, 42, 10, 0, 31, 76, 47, 26, 44>>,
    <<83, 53, 70, 45, 44, 39, 22, 80, 10, 0, 18, 30, 73, 33, 90>>,
    <<84, 55, 66, 67, 45, 39, 22, 44, 10, 0, 18, 30, 97, 33, 77>>,
    <<30, 67, 62, 47, 42, 40, 90, 45, 10, 0, 18, 31, 97, 85, 76>>,
    <<30, 67, 62, 47, 42, 40, 90, 45, 10, 0, 18, 31, 97, 85, 76>> >>
SeededPermutation(m) == SeededPermutationHeads[m - MinCompleteRows + 1]

\* np.random.choice(xs, size=k, replace=False): xs at the first k entries
\* of the seeded permutation of len(xs) positions
RandomChoiceWithReplacement(xs, k) ==
    [j \in 1..k |-> xs[SeededPermutation(Len(xs))[((j - 1) \div 2) + 1] + 1]]
RandomChoice(xs, k) ==
    [j \in 1..k |-> xs[SeededPermutation(Len(xs))[j] + 1]]


SeqRange(q) == {q[k] : k \in 1..Len(q)}

\* the validation frame and bookkeeping for the chosen indices; the
\* nulling is done on a copy, df_after is the caller's frame after the call
SplitAt(df, pcs, validation_indices) ==
    LET chosen == SeqRange(validation_indices)
    IN
    [df_after |-> df,
     df_validation |->
         [df EXCEPT !.val = [c \in FrameCols |->
             IF c \in ColSet(pcs)
             THEN [i \in Rows(df) |-> IF i \in chosen THEN NaN ELSE df.val[c][i]]
             ELSE df.val[c]]],
     info |->
         [validation_indices |-> validation_indices,
          validation_data |->
              [c \in ColSet(pcs) |->
                  [k \in 1..Len(validation_indices) |-> df.val[c][validation_indices[k]]]],
          n_validation_points |-> Len(validation_indices)]]

\* create_validation_split
create_validation_split(df, pcs) ==
    LET complete_indices == SortedSeq(CompleteRows(df, pcs), df.n)
        n_validation ==
            Max2(MinValidationPoints,
                 (Len(complete_indices) * ValidationPercent) \div 100)
    IN  IF Len(complete_indices) < MinCompleteRows
        THEN [df_after |-> df,
              df_validation |-> df,
              info |-> [error |-> "Insufficient complete data for validation"]]
        ELSE SplitAt(df, pcs, RandomChoice(complete_indices, n_validation))

Abs(x) == IF x < 0 THEN -x ELSE x

RECURSIVE SumAbsError(_, _, _)
SumAbsError(y_true, y_pred, K) ==
    IF K = {} THEN 0
    ELSE LET k == CHOOSE x \in K : TRUE
         IN  Abs(y_true[k] - y_pred[k]) + SumAbsError(y_true, y_pred, K \ {k})

\* calculate_metrics without the guard for an empty mask
calculate_metrics_unguarded(y_true, y_pred) ==
    LET mask == {k \in 1..Len(y_true) : ~(IsNa(y_true[k]) \/ IsNa(y_pred[k]))}
    IN  [samples_used |-> Cardinality(mask),
         abs_error_sum |-> SumAbsError(y_true, y_pred, mask)]

\* InterpolationMetrics.calculate_metrics: the sample count and the sum of
\* absolute errors (mae = abs_error_sum / samples_used)
calculate_metrics(y_true, y_pred) ==
    LET mask == {k \in 1..Len(y_true) : ~(IsNa(y_true[k]) \/ IsNa(y_pred[k]))}
    IN  IF mask = {}
        THEN [error |-> "No valid data points for metric calculation"]
        ELSE [samples_used |-> Cardinality(mask),
              abs_error_sum |-> SumAbsError(y_true, y_pred, mask)]

\* sum of the columns' mae values as a fraction num / den
RECURSIVE SumMae(_, _)
SumMae(vm, S) ==
    IF S = {} THEN [num |-> 0, den |-> 1]
    ELSE LET c == CHOOSE x \in S : TRUE
             rest == SumMae(vm, S \ {c})
         IN  [num |-> vm[c].abs_error_sum * rest.den + rest.num * vm[c].samples_used,
              den |-> vm[c].samples_used * rest.den]

\* results['overall_metrics']: for a metric key, the mean over the columns
\* whose metrics have the key (`key in m`); no entry when no column has it.
\* avg_mae stands for the six averaged keys, as the fraction num / den.
OverallMetrics(vm) ==
    LET with_key == {c \in DOMAIN vm : "abs_error_sum" \in DOMAIN vm[c]}
        total == SumMae(vm, with_key)
    IN  IF with_key = {} THEN <<>>
        ELSE [avg_mae |-> [num |-> total.num,
                           den |-> total.den * Cardinality(with_key)]]

\* InterpolationConfig(gap_analysis).get_method_config('multi_output_regression')
MethodConfig(recs) ==
    Get(Get(recs, "configuration", <<>>), "multi_output_regression", <<>>)

\* interpolator_class(interpolation_config=interp_config): only
\* MultiOutputRegressionInterpolator.__init__ has that keyword
AcceptsConfigKeyword(kind) == kind = "MultiOutput"

\* construct, fit and interpolate as run_interpolation calls them, with
\* weather_data (None here) as fourth positional argument
EngineInterpolate(kind, recs, df, pcs, seed) ==
    IF ~AcceptsConfigKeyword(kind)
    THEN [raised |-> "TypeError", constructed |-> 0, fitted |-> 0, frame |-> df,
          metadata |-> "", fitted_on |-> <<>>, instance |-> <<>>]
    ELSE LET inst0 == FreshInstance(kind, TRUE, MethodConfig(recs))
             fit   == StrategyFit(inst0, df, pcs, 1)
             out   == StrategyInterpolate(fit.inst, df, pcs, seed, 1)
         IN  IF fit.raised # "none"
             THEN [raised |-> fit.raised, constructed |-> 1, fitted |-> 1, frame |-> df,
                   metadata |-> fit.inst.metadata, fitted_on |-> df,
                   instance |-> fit.inst]
             ELSE [raised |-> out.raised, constructed |-> 1, fitted |-> 1,
                   frame |-> out.frame, metadata |-> fit.inst.metadata,
                   fitted_on |-> df, instance |-> fit.inst]

\* ---- one run of run_interpolation ----------------------------------------
\* gap-analysis structure sections
Structures ==
    {<<>>,
     [time_column |-> "Time"],
     [time_column |-> "Time", power_columns |-> <<>>],
     [power_columns |-> <<"A">>],
     [time_column |-> "", power_columns |-> <<"A", "B">>],
     [time_column |-> "Time", power_columns |-> <<"A">>],
     [time_column |-> "Time", power_columns |-> <<"A", "B">>]}

Absent == "<absent>"
PrimaryMethodChoices == {Absent, "gaussian_process", "multi_output_regression", "lstm_model"}
PrimaryMethodsChoices ==
    {[absent |-> TRUE], [absent |-> FALSE, v |-> NotAList],
     [absent |-> FALSE, v |-> ListOf(<<>>)],
     [absent |-> FALSE, v |-> ListOf(<<"multi_output_regression">>)]}
ConfigChoices == {Absent, "a", "c", "custom"}

\* the recommendations section with the chosen keys present
Recommendations(pm, pms, cfg) ==
    LET d1 == IF pm = Absent THEN <<>> ELSE [primary_method |-> pm]
        d2 == IF pms.absent THEN <<>> ELSE [primary_methods |-> pms.v]
        d3 == IF cfg = Absent THEN <<>>
              ELSE [configuration |->
                       [multi_output_regression |->
                           IF cfg = "a" THEN BlockA
                           ELSE IF cfg = "c" THEN BlockC ELSE BlockCustom]]
    IN  d1 @@ d2 @@ d3

MethodNameChoices ==
    {PyNone, "", "multi_output_regression", "physics_based_model", "cubic_magic"}

EngineFrameSizes == {12, 22, 51, 103}
EngineFrames == {MakeFrame(n, 0, pat) : n \in EngineFrameSizes, pat \in MissingPatterns}

\* the requests explored with every frame and configuration:
\* a complete structure section and one of three ways of naming a method
DataFamily(st, pm, pms, mn) ==
    /\ ~StructureMissing(extract_data_structure(st))
    /\ \/ pm = Absent /\ pms.absent /\ mn \in {PyNone, "multi_output_regression"}
       \/ pm = "multi_output_regression" /\ ~pms.absent /\ pms.v.is_list
             /\ pms.v.items # <<>> /\ mn = PyNone

NewRun ==
    [phase |-> "start", raised |-> "none", stage |-> "", method |-> PyNone,
     power_columns |-> <<>>, constructed |-> 0, fitted |-> 0,
     split |-> <<>>, validation_metrics |-> <<>>, df_final |-> <<>>,
     missing_values_filled |-> <<>>, metadata |-> "",
     validation_interpolator |-> <<>>, interpolator |-> <<>>,
     validation_pred |-> <<>>, overall_metrics |-> <<>>]

InitEngine ==
    /\ \E st \in Structures, pm \in PrimaryMethodChoices, pms \in PrimaryMethodsChoices,
          cfg \in ConfigChoices, mn \in MethodNameChoices, v \in BOOLEAN,
          df \in EngineFrames :
          /\ ~DataFamily(st, pm, pms, mn) => (df = MakeFrame(12, 0, 1) /\ cfg = Absent)
          /\ req = [structure |-> st,
                    recommendations |-> Recommendations(pm, pms, cfg),
                    method_name |-> mn, validate |-> v, df |-> df]
    /\ run = NewRun

Failed(stage, error, constructed, fitted) ==
    [run EXCEPT !.phase = "failed", !.raised = error, !.stage = stage,
                !.constructed = run.constructed + constructed,
                !.fitted = run.fitted + fitted]

\* run_interpolation up to the creation of the results record
Prepare ==
    /\ run.phase = "start"
    /\ LET st  == extract_data_structure(req.structure)
           res == get_recommended_method(req.recommendations, req.method_name)
       IN  run' =
             IF StructureMissing(st) THEN Failed("structure", "ValueError", 0, 0)
             ELSE IF res.raised # "none" THEN Failed("resolve", res.raised, 0, 0)
             ELSE IF res.method \notin DOMAIN Interpolators
             THEN [Failed("method", "ValueError", 0, 0) EXCEPT !.method = res.method]
             ELSE [run EXCEPT !.phase = "prepared", !.method = res.method,
                              !.power_columns = st.power_columns]
    /\ UNCHANGED req

\* the `if validate:` block
Validate ==
    /\ run.phase = "prepared"
    /\ req.validate
    /\ \E seed \in PredSeeds :
        LET pcs == run.power_columns
            sp  == create_validation_split(req.df, pcs)
            out == EngineInterpolate(Interpolators[run.method], req.recommendations,
                                     sp.df_validation, pcs, seed)
            y_pred == [c \in ColSet(pcs) |->
                          [k \in 1..Len(sp.info.validation_indices) |->
                              out.frame.val[c][sp.info.validation_indices[k]]]]
            validation_metrics ==
                [c \in ColSet(pcs) |->
                    calculate_metrics(sp.info.validation_data[c], y_pred[c])]
        IN  run' =
              IF "error" \in DOMAIN sp.info
              THEN [run EXCEPT !.phase = "validated", !.split = sp]
              ELSE IF out.raised # "none"
              THEN [Failed("validation", out.raised, out.constructed, out.fitted)
                        EXCEPT !.split = sp]
              ELSE [run EXCEPT
                      !.phase = "validated",
                      !.split = sp,
                      !.constructed = run.constructed + out.constructed,
                      !.fitted = run.fitted + out.fitted,
                      !.validation_interpolator =
                          [number |-> run.constructed + out.constructed,
                           fitted_on |-> out.fitted_on, instance |-> out.instance],
                      !.validation_pred = y_pred,
                      !.validation_metrics = validation_metrics,
                      !.overall_metrics = OverallMetrics(validation_metrics)]
    /\ UNCHANGED req

\* metadata['missing_values_filled'][col]
MissingValuesFilledReversed(df, df_final, c) ==
    Cardinality(NaRows(df_final, c)) - Cardinality(NaRows(df, c))
MissingValuesFilled(df, df_final, c) ==
    Cardinality(NaRows(df, c)) - Cardinality(NaRows(df_final, c))

\* full interpolation on the original data, and the results metadata
FullInterpolation ==
    /\ run.phase = "validated" \/ (run.phase = "prepared" /\ ~req.validate)
    /\ \E seed \in PredSeeds :
        LET pcs == run.power_columns
            out == EngineInterpolate(Interpolators[run.method], req.recommendations,
                                     req.df, pcs, seed)
        IN  run' =
              IF out.raised # "none"
              THEN Failed("full", out.raised, out.constructed, out.fitted)
              ELSE [run EXCEPT
                      !.phase = "done",
                      !.constructed = run.constructed + out.constructed,
                      !.fitted = run.fitted + out.fitted,
                      !.df_final = out.frame,
                      !.metadata = out.metadata,
                      !.interpolator =
                          [number |-> run.constructed + out.constructed,
                           fitted_on |-> out.fitted_on, instance |-> out.instance],
                      !.missing_values_filled =
                          [c \in ColSet(pcs) |-> MissingValuesFilled(req.df, out.frame, c)]]
    /\ UNCHANGED req

(***************************************************************************)
(* Failure-pattern classifier: SolarGapAnalyzer.classify_failure_patterns. *)
(* A column of the analysis is its stored gaps: start times, in half      *)
(* hours since 2023-01-01T00:00, and lengths.                              *)
(***************************************************************************)
UnitsPerHour == 2

\* gap_times.diff().dropna()
Diffs(ts) == [i \in 1..(Len(ts) - 1) |-> ts[i + 1] - ts[i]]

SumSeq(sq) == SumOver(sq, DOMAIN sq)
SumProd(a, b) == SumOver([i \in DOMAIN a |-> a[i] * b[i]], DOMAIN a)

RECURSIVE GcdSeq(_)
GcdSeq(sq) == IF sq = <<>> THEN 0 ELSE GCD(Abs(Head(sq)), GcdSeq(Tail(sq)))

\* std / mean and the Pearson correlation do not change when a series is
\* divided by a positive constant; series are divided by their common
\* divisor so that the sums of squares stay small
Reduced(sq) ==
    LET g == GcdSeq(sq) IN IF g = 0 THEN sq ELSE [i \in DOMAIN sq |-> sq[i] \div g]

\* m * (m - 1) * var and mean^2 * m^2 of a series (var with ddof = 1)
ScaledVar(d) == Len(d) * SumProd(d, d) - SumSeq(d) * SumSeq(d)

\* std / mean > num / den, for a series of two or more values and mean > 0
RatioGreater(sq, num, den) ==
    LET d == Reduced(sq)
    IN  den * den * Len(d) * ScaledVar(d) > num * num * (Len(d) - 1) * SumSeq(d) * SumSeq(d)

\* std / mean < num / den, for a series of two or more values and mean > 0
RatioLess(sq, num, den) ==
    LET d == Reduced(sq)
    IN  den * den * Len(d) * ScaledVar(d) < num * num * (Len(d) - 1) * SumSeq(d) * SumSeq(d)

\* cv = std / mean if mean > 0 else 0
CvGreater(d, num, den) == SumSeq(d) > 0 /\ RatioGreater(d, num, den)
CvLess(d, num, den) == SumSeq(d) <= 0 \/ RatioLess(d, num, den)

\* np.corrcoef(time_numeric, gap_lengths)[0, 1] against +-0.3: the sign of
\* the covariance and 100 * cov^2 against 9 * var_t * var_l; a constant
\* series gives NaN, which compares false both ways
Correlation(ts, ls) ==
    LET t   == Reduced([i \in DOMAIN ts |-> ts[i] - ts[1]])
        n   == Len(t)
        cov == n * SumProd(t, ls) - SumSeq(t) * SumSeq(ls)
        vt  == ScaledVar(t)
        vl  == ScaledVar(ls)
    IN  IF vt * vl = 0 THEN "nan"
        ELSE IF cov > 0 /\ 100 * cov * cov > 9 * vt * vl THEN "above"
        ELSE IF cov < 0 /\ 100 * cov * cov > 9 * vt * vl THEN "below"
        ELSE "between"

ColumnMinGaps == 3        \* len(gap_times) < 3: nothing is classified
DegradationMinGaps == 5   \* len(gap_lengths) > 5
MaintenanceMinGaps == 4   \* len(gap_times) > 4

\* _analyze_column_failure_pattern
analyze_column_failure_pattern(gap_times, gap_lengths) ==
    LET time_diffs == Diffs(gap_times)
        total == SumSeq(time_diffs)
        m == Len(time_diffs)
    IN  IF Len(gap_times) < ColumnMinGaps THEN UnknownColumn
        ELSE [randomness |->
                 IF ~(m > 1) THEN "unknown"
                 ELSE IF CvGreater(time_diffs, 3, 2) THEN "high"
                 ELSE IF CvLess(time_diffs, 1, 2) THEN "unknown" ELSE "moderate",
              systematic |->
                 IF m > 1 /\ ~CvGreater(time_diffs, 3, 2) /\ CvLess(time_diffs, 1, 2)
                 THEN "high" ELSE "unknown",
              degradation |->
                 IF ~(Len(gap_lengths) > DegradationMinGaps) THEN "unknown"
                 ELSE IF Correlation(gap_times, gap_lengths) = "above" THEN "detected"
                 ELSE IF Correlation(gap_times, gap_lengths) = "below" THEN "improving"
                 ELSE "stable",
              maintenance_like |->
                 IF ~(Len(gap_times) > MaintenanceMinGaps /\ m > 2) THEN "unknown"
                 ELSE IF ~(IF total > 0 THEN RatioLess(time_diffs, 3, 10) ELSE total < 0)
                 THEN "unknown"
                 ELSE IF 160 * UnitsPerHour * m < total /\ total < 200 * UnitsPerHour * m
                 THEN "weekly"
                 ELSE IF 700 * UnitsPerHour * m < total /\ total < 800 * UnitsPerHour * m
                 THEN "monthly"
                 ELSE "regular",
              weather_correlated |-> "unknown"]

MaxStoredGaps == 10       \* 'gaps': gaps[:10]

\* the pairs (t1, t2) of gap starts of two different columns
GapStartPairs(cols) ==
    {p \in (1..Len(cols)) \X (1..Len(cols)) \X (1..MaxStoredGaps) \X (1..MaxStoredGaps) :
        /\ p[1] < p[2]
        /\ p[3] <= Len(cols[p[1]].times)
        /\ p[4] <= Len(cols[p[2]].times)}

\* abs((t1 - t2).total_seconds()) < 3600
WithinOneHour(t1, t2) == Abs(t1 - t2) < UnitsPerHour

\* a variant whose upper band starts at 0.3 inclusive
CrossLabelInclusive(simultaneous_count, total_overlaps) ==
    IF 10 * simultaneous_count >= 3 * total_overlaps
    THEN [UnknownCross EXCEPT !.simultaneous_failures = "high"]
    ELSE IF 10 * simultaneous_count > total_overlaps
    THEN [UnknownCross EXCEPT !.simultaneous_failures = "moderate"]
    ELSE [UnknownCross EXCEPT !.independent_failures = "high"]

\* overlap_ratio = simultaneous_count / total_overlaps against 0.3 and 0.1
CrossLabel(simultaneous_count, total_overlaps) ==
    IF 10 * simultaneous_count > 3 * total_overlaps
    THEN [UnknownCross EXCEPT !.simultaneous_failures = "high"]
    ELSE IF 10 * simultaneous_count > total_overlaps
    THEN [UnknownCross EXCEPT !.simultaneous_failures = "moderate"]
    ELSE [UnknownCross EXCEPT !.independent_failures = "high"]

\* _analyze_cross_equipment_correlation
analyze_cross_equipment_correlation(cols) ==
    LET pairs == GapStartPairs(cols)
        simultaneous ==
            {p \in pairs : WithinOneHour(cols[p[1]].times[p[3]], cols[p[2]].times[p[4]])}
    IN  IF Len(cols) < 2 \/ ~(Cardinality(pairs) > 0) THEN UnknownCross
        ELSE CrossLabel(Cardinality(simultaneous), Cardinality(pairs))

RECURSIVE InsertSorted(_, _)
InsertSorted(x, sq) ==
    IF sq = <<>> THEN <<x>>
    ELSE IF x <= Head(sq) THEN <<x>> \o sq
    ELSE <<Head(sq)>> \o InsertSorted(x, Tail(sq))

RECURSIVE SortValues(_)
SortValues(sq) == IF sq = <<>> THEN <<>> ELSE InsertSorted(Head(sq), SortValues(Tail(sq)))

RECURSIVE AllGapTimes(_)
AllGapTimes(cols) == IF cols = <<>> THEN <<>> ELSE Head(cols).times \o AllGapTimes(Tail(cols))

\* Timestamp.month, for a non-leap year starting at time 0
MonthEnds == <<31, 59, 90, 120, 151, 181, 212, 243, 273, 304, 334, 365>>
MonthOf(t) ==
    LET day == ((t \div UnitsPerHour) \div 24) % 365
    IN  CHOOSE k \in 1..12 : day < MonthEnds[k] /\ (k = 1 \/ day >= MonthEnds[k - 1])

\* _analyze_temporal_clustering
analyze_temporal_clustering(cols) ==
    LET all_gap_times == SortValues(AllGapTimes(cols))
        n == Len(all_gap_times)
        time_diffs == Diffs(all_gap_times)
        short == Cardinality({i \in DOMAIN time_diffs : time_diffs[i] < 24 * UnitsPerHour})
        month_count(k) == Cardinality({i \in 1..n : MonthOf(all_gap_times[i]) = k})
        months == {k \in 1..12 : month_count(k) > 0}
        max_count == CHOOSE c \in {month_count(k) : k \in months} :
                         \A k \in months : month_count(k) <= c
        unknown == [clustered |-> "unknown", distributed |-> "unknown", seasonal |-> "unknown"]
    IN  IF n < 5 THEN unknown
        ELSE [clustered |->
                 IF ~(Len(time_diffs) > 1) THEN "unknown"
                 ELSE IF 2 * short > Len(time_diffs) THEN "high"
                 ELSE IF 5 * short < Len(time_diffs) THEN "unknown" ELSE "moderate",
              distributed |->
                 IF Len(time_diffs) > 1 /\ ~(2 * short > Len(time_diffs))
                    /\ 5 * short < Len(time_diffs)
                 THEN "high" ELSE "unknown",
              seasonal |->
                 IF ~(n > 10 /\ Cardinality(months) > 1) THEN "unknown"
                 ELSE IF 10 * max_count > 4 * n THEN "high"
                 ELSE IF 4 * max_count > n THEN "moderate" ELSE "unknown"]

\* classify_failure_patterns on analysis['columns']
classify_failure_patterns(cols) ==
    IF cols = <<>> THEN [error |-> "No column data available for pattern analysis"]
    ELSE LET p == [failure_types |->
                       [i \in 1..Len(cols) |->
                           analyze_column_failure_pattern(cols[i].times, cols[i].lengths)],
                   cross |-> analyze_cross_equipment_correlation(cols),
                   temporal |-> analyze_temporal_clustering(cols)]
         IN  [failure_types |-> p.failure_types,
              cross |-> p.cross,
              temporal |-> p.temporal,
              pattern_summary |-> generate_pattern_summary(p)]

\* ---- inputs of the classifier --------------------------------------------
\* k gap starts every `step` half hours from `start`
Regular(k, start, step) == [i \in 1..k |-> start + (i - 1) * step]

GapTimeLists ==
    {Regular(k, 0, 24 * UnitsPerHour) : k \in {1, 2, 3, 4, 6, 10}}
    \cup {Regular(k, 0, 168 * UnitsPerHour) : k \in {4, 5, 6}}
    \cup {Regular(6, 0, 720 * UnitsPerHour),
          Regular(4, 1, 24 * UnitsPerHour),
          Regular(4, 2, 24 * UnitsPerHour),
          <<0, 2, 4, 6, 8, 80>>,
          <<0, 10, 40, 60, 110, 130>>,
          <<0, 30, 70, 100, 140>>,
          <<0, 20, 60, 80, 120, 140>>}

\* gap lengths rising, falling, alternating or constant over the gaps
GapLengthShapes == {"rising", "falling", "alternating", "constant"}
ShapedLengths(shape, k) ==
    [i \in 1..k |-> IF shape = "rising" THEN i
                    ELSE IF shape = "falling" THEN k + 1 - i
                    ELSE IF shape = "alternating" THEN 1 + 2 * (i % 2) ELSE 2]

AnalysisColumn(ts, shape) == [times |-> ts, lengths |-> ShapedLengths(shape, Len(ts))]

\* one or two columns with any gaps, or three columns of which the third
\* has constant lengths
AnalysisColumnSets ==
    LET any == {AnalysisColumn(ts, sh) : ts \in GapTimeLists, sh \in GapLengthShapes}
        flat == {AnalysisColumn(ts, "constant") : ts \in GapTimeLists}
    IN  SeqsUpTo(flat, 2)
        \cup {<<c>> : c \in any}
        \cup {<<a, b, c>> : a \in flat, b \in flat, c \in flat}

ParkedClassify == analysis_columns = <<>> /\ classified = <<>> /\ cpc = "off"

InitClassify ==
    /\ analysis_columns \in AnalysisColumnSets
    /\ classified = <<>>
    /\ cpc = "input"

Classify ==
    /\ cpc = "input"
    /\ classified' = classify_failure_patterns(analysis_columns)
    /\ cpc' = "done"
    /\ UNCHANGED analysis_columns

(***************************************************************************)
(* Specifications                                                          *)
(***************************************************************************)
ParkedEngine == req = <<>> /\ run = <<>>

NextGaps == FindGaps /\ UNCHANGED <<recVars, clsVars, stgVars, engVars>>
StartGaps == InitGaps /\ ParkedRec /\ ParkedClassify /\ ParkedStrategy /\ ParkedEngine
SpecGaps == StartGaps /\ [][NextGaps]_vars

NextRecommend == (BinGaps \/ Recommend) /\ UNCHANGED <<gapVars, clsVars, stgVars, engVars>>
StartRecommend == InitRecommend /\ ParkedGaps /\ ParkedClassify /\ ParkedStrategy /\ ParkedEngine
SpecRecommend == StartRecommend /\ [][NextRecommend]_vars

Init == InitEngine /\ ParkedGaps /\ ParkedRec /\ ParkedClassify /\ ParkedStrategy
Next == (Prepare \/ Validate \/ FullInterpolation)
            /\ UNCHANGED <<gapVars, recVars, clsVars, stgVars>>
Spec == Init /\ [][Next]_vars

NextStrategy == (Fit \/ FitAgain \/ Interpolate \/ ApplySolarConstraints \/ TheoreticalCurve)
                    /\ UNCHANGED <<gapVars, recVars, clsVars, engVars>>
StartStrategy == InitStrategy /\ ParkedGaps /\ ParkedRec /\ ParkedClassify /\ ParkedEngine
SpecStrategy == StartStrategy /\ [][NextStrategy]_vars

NextClassify == Classify /\ UNCHANGED <<gapVars, recVars, stgVars, engVars>>
StartClassify == InitClassify /\ ParkedGaps /\ ParkedRec /\ ParkedStrategy /\ ParkedEngine
SpecClassify == StartClassify /\ [][NextClassify]_vars

(***************************************************************************)
(* Claims about the Gap Detector (SpecGaps)                                *)
(***************************************************************************)
CellMissing(c) == c = NaN \/ c = NonNumeric

\* the maximal missing runs <<first, last>> (0-based rows) of a series
MissingRuns(s) ==
    {r \in (0..Len(s) - 1) \X (0..Len(s) - 1) :
        /\ r[1] <= r[2]
        /\ \A i \in r[1]..r[2] : CellMissing(s[i + 1])
        /\ (r[1] = 0 \/ ~CellMissing(s[r[1]]))
        /\ (r[2] = Len(s) - 1 \/ ~CellMissing(s[r[2] + 2]))}

\* the runs that follow a non-missing value
PrecededRuns(s) == {r \in MissingRuns(s) : r[1] > 0}

\* C2: when find_gaps_generic has returned, the gap records are exactly the
\* maximal missing runs that follow a non-missing value, one record per run,
\* in sequence order, each with start_index = first missing row, end_index =
\* last missing row and length = end_index - start_index + 1 >= 1.
C2_PrecededRunsReported ==
    gpc = "done" =>
        /\ Len(gaps) = Cardinality(PrecededRuns(series))
        /\ \A k \in 1..Len(gaps) :
              /\ <<gaps[k].start_index, gaps[k].end_index>> \in PrecededRuns(series)
              /\ gaps[k].length = gaps[k].end_index - gaps[k].start_index + 1
              /\ gaps[k].length >= 1
        /\ \A k \in 1..Len(gaps), l \in 1..Len(gaps) :
              k < l => gaps[k].end_index < gaps[l].start_index

\* C2 witness: a run of two bounded by non-missing values and a trailing run
\* were both reported
C2_Witness ==
    /\ gpc = "done"
    /\ Len(gaps) = 2
    /\ gaps[1].length = 2
    /\ ~CellMissing(series[gaps[1].end_index + 2])
    /\ gaps[2].end_index = Len(series) - 1

\* C3: a missing run that starts at row 0 is reported with start_index 0, an
\* all-missing column yields exactly one gap spanning the series, and an
\* empty series yields no gap.
C3_LeadingRunsReported ==
    gpc = "done" =>
        /\ (Len(series) > 0 /\ CellMissing(series[1])
              => \E k \in 1..Len(gaps) : gaps[k].start_index = 0)
        /\ (Len(series) > 0 /\ (\A i \in 1..Len(series) : CellMissing(series[i]))
              => /\ Len(gaps) = 1
                 /\ gaps[1].start_index = 0
                 /\ gaps[1].end_index = Len(series) - 1
                 /\ gaps[1].length = Len(series))
        /\ (series = <<>> => gaps = <<>>)

(***************************************************************************)
(* Claims about the Method Recommender (SpecRecommend)                     *)
(***************************************************************************)
BinnedGaps == SumOver(gap_dist, DOMAIN gap_dist)
ShortGaps == gap_dist["1h"] + gap_dist["2h"] + gap_dist["3h"]
MediumGaps == gap_dist["6h"] + gap_dist["12h"] + gap_dist["1d"]
LongGaps == gap_dist["2d"] + gap_dist["1w"]

SomeColumn(P(_)) == \E i \in 1..Len(patterns.failure_types) : P(patterns.failure_types[i])
DegradationSeen == LET P(cp) == cp.degradation = "detected" IN SomeColumn(P)
MaintenanceSeen == LET P(cp) == cp.maintenance_like # "unknown" IN SomeColumn(P)
RandomSeen == LET P(cp) == cp.randomness = "high" IN SomeColumn(P)

\* C4: with at least one binned gap, system-wide failures give
\* system_level_interpolation whatever the secondary patterns; individual
\* equipment failures give degradation_aware, else maintenance_aware, else
\* equipment_specific, else multi_output_regression, first match winning.
C4_PatternDecisionOrder ==
    (rpc = "done" /\ BinnedGaps > 0) =>
        /\ (patterns.cross.simultaneous_failures = "high"
              => recommendations.primary_method = "system_level_interpolation")
        /\ (/\ patterns.cross.simultaneous_failures # "high"
            /\ patterns.cross.independent_failures = "high")
              => recommendations.primary_method =
                    IF DegradationSeen THEN "degradation_aware_interpolation"
                    ELSE IF MaintenanceSeen THEN "maintenance_aware_interpolation"
                    ELSE IF RandomSeen THEN "equipment_specific_interpolation"
                    ELSE "multi_output_regression"

\* C4 witness: individual failures with both degradation and maintenance
\* present were resolved to the degradation-aware method
C4_Witness ==
    /\ rpc = "done"
    /\ BinnedGaps > 0
    /\ patterns.cross.independent_failures = "high"
    /\ DegradationSeen /\ MaintenanceSeen /\ RandomSeen
    /\ recommendations.primary_method = "degradation_aware_interpolation"

\* C5: with the primary pattern unknown, spline_interpolation is recommended
\* if short gaps are strictly more than 70% of the binned gaps, otherwise
\* gaussian_process if medium gaps are strictly more than 30%, otherwise
\* physics_based_model if long gaps are strictly more than 20%.
C5_FallbackThresholds ==
    (/\ rpc = "done"
     /\ BinnedGaps > 0
     /\ recommendations.pattern_summary.primary_pattern = "unknown") =>
        IF 10 * ShortGaps > 7 * BinnedGaps
        THEN recommendations.primary_method = "spline_interpolation"
        ELSE /\ recommendations.primary_method # "spline_interpolation"
             /\ IF 10 * MediumGaps > 3 * BinnedGaps
                THEN recommendations.primary_method = "gaussian_process"
                ELSE /\ recommendations.primary_method # "gaussian_process"
                     /\ IF 10 * LongGaps > 2 * BinnedGaps
                        THEN recommendations.primary_method = "physics_based_model"
                        ELSE recommendations.primary_method # "physics_based_model"

\* C13: every recommendation returned without an error for an analysis that
\* contains at least one gap carries method_parameters.apply_solar_constraints
\* = true and a configuration block in which every method's solar
\* constraints have nighttime_zero = true and negative_clipping = true.
C13_SolarConstraintsAlwaysRecommended ==
    (rpc = "done" /\ Len(all_gap_lengths) >= 1) =>
        /\ "apply_solar_constraints" \in DOMAIN recommendations.method_parameters
        /\ recommendations.method_parameters["apply_solar_constraints"] = TRUE
        /\ "configuration" \in DOMAIN recommendations
        /\ \A m \in DOMAIN recommendations.configuration :
              /\ recommendations.configuration[m].solar_constraints.nighttime_zero = TRUE
              /\ recommendations.configuration[m].solar_constraints.negative_clipping = TRUE

\* the bin edges[i] <= L < edges[i+1] of the claimed rule
RightExclusiveCount(i) ==
    Cardinality({k \in 1..Len(all_gap_lengths) :
        gap_length_bins[i] <= all_gap_lengths[k] /\ all_gap_lengths[k] < gap_length_bins[i + 1]})

\* C14: once the gap lengths are binned, the count under each label is the
\* number of gaps with edges[i] <= L < edges[i+1], for every bin i of the
\* edge list [1,2,3,6,12,24,48,168,1000]; so a gap of exactly 6 is counted
\* under '6h' and a gap of exactly 168 under the bin that starts at 168.
C14_BinsRightExclusive ==
    rpc \in {"input", "done"} =>
        /\ gap_length_bins = <<1, 2, 3, 6, 12, 24, 48, 168, 1000>>
        /\ \A i \in 1..(Len(gap_length_bins) - 1) :
              gap_dist[gap_length_labels[i]] = RightExclusiveCount(i)
        /\ (all_gap_lengths = <<6>> => gap_dist["6h"] = 1)
        /\ (all_gap_lengths = <<168>> => gap_dist["1w"] = 1)

(***************************************************************************)
(* Claims about the failure-pattern classifier (SpecClassify)              *)
(***************************************************************************)
Classified == cpc = "done" /\ "error" \notin DOMAIN classified

ComputedDegradation == {"detected", "improving", "stable"}
AssignedMaintenance == {"weekly", "monthly", "regular"}

\* the claimed labels of one column with gap starts ts, given its labels cp
GatedAsClaimed(ts, cp) ==
    LET n == Len(ts)
        d == Diffs(ts)
    IN  /\ n < 3 => cp = UnknownColumn
        /\ n >= 3 =>
              /\ CvGreater(d, 3, 2) =>
                    cp.randomness = "high" /\ cp.systematic = "unknown"
              /\ (~CvGreater(d, 3, 2) /\ ~CvLess(d, 1, 2)) =>
                    cp.randomness = "moderate" /\ cp.systematic = "unknown"
              /\ CvLess(d, 1, 2) =>
                    cp.randomness = "unknown" /\ cp.systematic = "high"
        /\ n >= 5 => cp.degradation \in ComputedDegradation
        /\ (n >= 4 /\ CvLess(d, 3, 10)) => cp.maintenance_like \in AssignedMaintenance

\* C17: per column, with fewer than 3 gaps all five labels are unknown; with
\* at least 3 gaps exactly one of randomness (high if CV > 1.5, moderate if
\* 0.5 <= CV <= 1.5) and systematic (high if CV < 0.5) is set; degradation
\* is computed whenever the column has at least 5 gaps; maintenance_like is
\* assigned whenever the column has at least 4 gaps and interval CV < 0.3.
C17_ClassifierGating ==
    Classified =>
        \A i \in 1..Len(analysis_columns) :
            GatedAsClaimed(analysis_columns[i].times, classified.failure_types[i])

SimultaneousCount ==
    Cardinality({p \in GapStartPairs(analysis_columns) :
        WithinOneHour(analysis_columns[p[1]].times[p[3]],
                      analysis_columns[p[2]].times[p[4]])})
TotalOverlaps == Cardinality(GapStartPairs(analysis_columns))

\* C18: with at least two columns and at least one pair of gap starts
\* considered, an overlap ratio above 0.3 gives simultaneous_failures high
\* and primary pattern system_wide_failures; a ratio above 0.1 and at most
\* 0.3 gives simultaneous_failures moderate and primary pattern unknown; a
\* ratio of at most 0.1 gives independent_failures high and primary pattern
\* individual_equipment_failures; the two are never high together.
C18_CrossEquipmentBands ==
    (Classified /\ Len(analysis_columns) >= 2 /\ TotalOverlaps > 0) =>
        LET cross == classified.cross
            primary == classified.pattern_summary.primary_pattern
        IN  /\ 10 * SimultaneousCount > 3 * TotalOverlaps =>
                  /\ cross.simultaneous_failures = "high"
                  /\ primary = "system_wide_failures"
            /\ (/\ 10 * SimultaneousCount > TotalOverlaps
                /\ 10 * SimultaneousCount <= 3 * TotalOverlaps) =>
                  /\ cross.simultaneous_failures = "moderate"
                  /\ primary = "unknown"
            /\ 10 * SimultaneousCount <= TotalOverlaps =>
                  /\ cross.independent_failures = "high"
                  /\ primary = "individual_equipment_failures"
            /\ ~(cross.simultaneous_failures = "high" /\ cross.independent_failures = "high")

\* C18 witness: three columns whose overlap ratio is exactly 0.3 were
\* classified as moderate
C18_Witness ==
    /\ Classified
    /\ Len(analysis_columns) = 3
    /\ 10 * SimultaneousCount = 3 * TotalOverlaps
    /\ classified.cross.simultaneous_failures = "moderate"
    /\ classified.pattern_summary.primary_pattern = "unknown"

(***************************************************************************)
(* Claims about the strategies (SpecStrategy)                              *)
(***************************************************************************)
InterpolateReturned == last.op = "interpolate" /\ last.raised = "none"

\* C6: for every strategy variant, interpolate on a freshly constructed
\* instance on which fit has never been called raises the fit-precondition
\* failure (ValueError "Must call fit() before interpolate()") instead of
\* returning a frame.
C6_UnfittedInterpolateRaises ==
    (last.op = "interpolate" /\ ~stg.fit_called) => last.raised = "ValueError"

\* every setting of the solar constraints at its default value
DefaultConstraintSettings(inst) ==
    /\ NighttimeZero(inst)
    /\ NegativeClipping(inst)
    /\ MaxPowerLimits(inst) = <<>>
    /\ MaxEfficiency(inst) = FullEfficiency

\* C7: in the frame returned by interpolate of any strategy under the
\* default constraint settings, every power column is exactly 0 at every
\* row whose hour is in 0..5 or 19..23, and every non-missing power value
\* is >= 0, whatever the input values and whether or not the column was
\* fitted.
C7_SolarConstraintPostcondition ==
    (InterpolateReturned /\ DefaultConstraintSettings(stg.inst)) =>
        \A c \in ColSet(stg.pcs) : \A i \in Rows(last.frame) :
            /\ (last.frame.hour[i] \in (0..5) \cup (19..23)) => last.frame.val[c][i] = 0
            /\ ~IsNa(last.frame.val[c][i]) => last.frame.val[c][i] >= 0

\* a frame was returned under default settings whose input held a negative
\* daytime value, a non-zero night value and a column left unfitted
C7_Witness ==
    /\ InterpolateReturned
    /\ DefaultConstraintSettings(stg.inst)
    /\ stg.inst.kind = "GP"
    /\ stg.inst.gp_models = {}
    /\ \E i \in Rows(stg.frame) :
          ~IsNight(stg.frame.hour[i]) /\ ~IsNa(stg.frame.val["A"][i])
              /\ stg.frame.val["A"][i] < 0 /\ last.frame.val["A"][i] = 0
    /\ \E i \in Rows(stg.frame) :
          IsNight(stg.frame.hour[i]) /\ stg.frame.val["A"][i] > 0
              /\ last.frame.val["A"][i] = 0

\* the frame has too few usable rows for the instance's fit to train
TooFewRows(inst, f, pcs) ==
    IF inst.kind = "Spline"
    THEN \E c \in ColSet(pcs) : Cardinality(NotNaRows(f, c)) <= SplineMinPoints
    ELSE IF inst.kind = "GP"
    THEN \E c \in ColSet(pcs) : Cardinality(NotNaRows(f, c)) <= GPMinCases
    ELSE IF inst.kind = "Physics"
    THEN \E c \in ColSet(pcs) : DaytimeRows(f, c) = {}
    ELSE IF FitMode(inst) = "a"
    THEN \A c \in ColSet(pcs) : Cardinality(NotNaRows(f, c)) < CorrMinRows
    ELSE Cardinality(CompleteRows(f, pcs)) <= IndepMinRows

\* what the Spline strategy returns on the same frame
SplineResult(f, pcs, seed) ==
    SplineInterpolate(SplineFit(FreshInstance("Spline", FALSE, <<>>)), f, pcs, seed).frame

\* C8: for every strategy and every input frame with too few usable rows
\* to fit, fit followed by interpolate completes without raising; in
\* multi-output modes (b) and (c) the fit leaves an empty model and
\* interpolate returns the result of the Spline strategy on the same frame.
C8_InsufficientDataNeverRaises ==
    (last.op = "interpolate" /\ stg.fit_called
        /\ TooFewRows(stg.inst, stg.frame, stg.pcs)) =>
        /\ last.raised = "none"
        /\ (stg.inst.kind = "MultiOutput" /\ FitMode(stg.inst) \in {"b", "c"}) =>
              /\ stg.inst.model = NoModel
              /\ last.frame = SplineResult(stg.frame, stg.pcs, last.seed)

(***************************************************************************)
(* Claims about the engine (Spec)                                          *)
(***************************************************************************)
\* the run got as far as resolving the method, and the resolution returned
Resolved == run.phase # "start" /\ run.stage \notin {"structure", "resolve"}

\* C1: get_recommended_method returns the explicit override when one is
\* given; otherwise it returns recommendations.primary_method when that key
\* is present; and it returns 'spline_interpolation' only when neither an
\* override nor a recommended method is present.
C1_MethodResolution ==
    Resolved =>
        /\ TruthyStr(req.method_name) => run.method = req.method_name
        /\ (~TruthyStr(req.method_name) /\ "primary_method" \in DOMAIN req.recommendations)
              => run.method = req.recommendations.primary_method
        /\ (run.method = "spline_interpolation") =>
              /\ ~TruthyStr(req.method_name)
              /\ "primary_method" \notin DOMAIN req.recommendations
              /\ ~("primary_methods" \in DOMAIN req.recommendations
                     /\ req.recommendations.primary_methods.is_list
                     /\ req.recommendations.primary_methods.items # <<>>)

\* C9: run_interpolation fails with a configuration error (ValueError) when
\* the structure section lacks a time column or has no power columns, and
\* when the resolved method name is not a key of the method mapping; the
\* error leaves run_interpolation and no strategy was constructed or fitted.
C9_ConfigurationErrors ==
    LET st  == extract_data_structure(req.structure)
        res == get_recommended_method(req.recommendations, req.method_name)
        rejected(stage) ==
            /\ run.phase = "failed"
            /\ run.raised = "ValueError"
            /\ run.stage = stage
            /\ run.constructed = 0
            /\ run.fitted = 0
    IN  run.phase # "start" =>
            /\ (st.time_column \in {PyNone, ""} \/ st.power_columns = <<>>)
                  => rejected("structure")
            /\ (st.time_column \notin {PyNone, ""} /\ st.power_columns # <<>>
                  /\ res.raised = "none" /\ res.method \notin DOMAIN Interpolators)
                  => rejected("method")

\* a run given a time column but an empty power-column list was rejected
C9_Witness ==
    /\ run.phase = "failed"
    /\ run.stage = "structure"
    /\ "time_column" \in DOMAIN req.structure
    /\ req.structure.time_column = "Time"
    /\ "power_columns" \in DOMAIN req.structure

\* the validation block ran (the split was created)
SplitDone == run.phase # "start" /\ run.split # <<>>

\* C10: every validation index is a row in which all power columns are
\* non-missing in the original frame, the indices are pairwise distinct,
\* exactly those rows' power values are nulled in the validation frame while
\* the original frame is left unchanged; with fewer than 20 complete rows
\* the split returns a diagnostic and the engine skips validation without
\* raising.
C10_ValidationSplit ==
    SplitDone =>
        LET sp == run.split
            pcs == run.power_columns
            complete == {i \in Rows(req.df) :
                            \A c \in ColSet(pcs) : req.df.val[c][i] # NaN}
        IN  IF Cardinality(complete) < 20
            THEN /\ "error" \in DOMAIN sp.info
                 /\ run.stage # "validation"
                 /\ run.validation_metrics = <<>>
                 /\ run.phase = "validated" => run.raised = "none"
            ELSE LET idx == sp.info.validation_indices
                 IN  /\ \A k \in 1..Len(idx) : idx[k] \in complete
                     /\ \A j, k \in 1..Len(idx) : j # k => idx[j] # idx[k]
                     /\ \A c \in ColSet(pcs) : \A i \in Rows(req.df) :
                           sp.df_validation.val[c][i] =
                               IF \E k \in 1..Len(idx) : idx[k] = i
                               THEN NaN ELSE req.df.val[c][i]
                     /\ sp.df_after = req.df

\* a split over a frame with incomplete rows drew its indices and the
\* validation went on to produce metrics
C10_Witness ==
    /\ SplitDone
    /\ "validation_indices" \in DOMAIN run.split.info
    /\ Len(run.power_columns) = 2
    /\ \E i \in Rows(req.df) : req.df.val["A"][i] = NaN
    /\ run.phase = "validated"
    /\ run.validation_metrics # <<>>

\* the run returned its results
RunSucceeded == run.phase = "done"

\* C11: in every successful run, with or without validation, the engine
\* fits a fresh strategy instance on the original (unmasked) frame after any
\* validation step and interpolates that frame to produce the output; the
\* instance fitted on the validation-masked frame is never used for the
\* output; and missing_values_filled[col] equals the original missing count
\* minus the final missing count of that column.
C11_DeliverableFromUnmaskedFrame ==
    RunSucceeded =>
        LET pcs == run.power_columns
            fresh == FreshInstance(Interpolators[run.method], TRUE,
                                   MethodConfig(req.recommendations))
        IN  /\ run.interpolator.fitted_on = req.df
            /\ run.interpolator.instance = StrategyFit(fresh, req.df, pcs, 1).inst
            /\ run.interpolator.number = run.constructed
            /\ run.validation_interpolator # <<>> =>
                  run.validation_interpolator.number < run.interpolator.number
            /\ \E seed \in PredSeeds :
                  run.df_final =
                      StrategyInterpolate(run.interpolator.instance, req.df, pcs, seed, 1).frame
            /\ \A c \in ColSet(pcs) :
                  run.missing_values_filled[c] =
                      Cardinality({i \in Rows(req.df) : req.df.val[c][i] = NaN})
                        - Cardinality({i \in Rows(run.df_final) : run.df_final.val[c][i] = NaN})

\* a validated run succeeded: two instances were built, the first fitted on
\* a masked frame, and the output filled missing values
C11_Witness ==
    /\ RunSucceeded
    /\ run.validation_interpolator # <<>>
    /\ run.validation_interpolator.fitted_on # req.df
    /\ run.constructed = 2
    /\ \E c \in ColSet(run.power_columns) : run.missing_values_filled[c] > 0

(***************************************************************************)
(* Claims about validation metrics (Spec)                                  *)
(***************************************************************************)
\* validation metrics were computed in this run
ValidationScored == run.validation_pred # <<>>

\* no validation position of column c has both a true and a predicted value
Degenerate(c) ==
    \A k \in 1..Len(run.validation_pred[c]) :
        \/ IsNa(run.split.info.validation_data[c][k])
        \/ IsNa(run.validation_pred[c][k])

MetricError == [error |-> "No valid data points for metric calculation"]

\* C16: when the validation data of a column has no position with both a
\* true and a predicted value, the column's validation metrics are the error
\* payload, the cross-column averages are those of the other columns only,
\* and the run does not fail: it goes on to the full interpolation, whose
\* output covers that column too.
C16_DegenerateValidationCompletes ==
    ValidationScored =>
        \A c \in ColSet(run.power_columns) : Degenerate(c) =>
            /\ run.validation_metrics[c] = MetricError
            /\ run.overall_metrics =
                 OverallMetrics(
                     [d \in {x \in ColSet(run.power_columns) : ~Degenerate(x)} |->
                         run.validation_metrics[d]])
            /\ run.phase \in {"validated", "done"}
            /\ (run.phase = "done" =>
                  /\ run.df_final # <<>>
                  /\ run.df_final.n = req.df.n
                  /\ c \in DOMAIN run.missing_values_filled)

\* C16 witness: a finished run whose validation was degenerate for one
\* column and scored for another, which alone makes the average
C16_Witness ==
    /\ run.phase = "done"
    /\ ValidationScored
    /\ \E c, d \in ColSet(run.power_columns) :
          /\ Degenerate(c)
          /\ ~Degenerate(d)
          /\ run.validation_metrics[c] = MetricError
          /\ run.overall_metrics.avg_mae.den = run.validation_metrics[d].samples_used
          /\ run.missing_values_filled[c] > 0

(***************************************************************************)
(* Claims about the solar post-processor (SpecStrategy)                    *)
(***************************************************************************)
\* C15: for every frame, applying apply_solar_constraints (night hours set
\* to zero, values clipped at zero) to a frame it has already processed
\* returns that frame unchanged: twice is the same as once.
C15_SolarConstraintsIdempotent ==
    [][(/\ last.op = "apply_solar_constraints"
        /\ last'.op = "apply_solar_constraints")
          => last'.frame = last.frame]_vars

\* C15 witness: the post-processor ran twice on a frame the first run
\* changed both at night and by clipping a negative daytime value
C15_Witness ==
    /\ last.op = "apply_solar_constraints"
    /\ last.times = 2
    /\ \E c \in ColSet(stg.pcs) : \E i, j \in Rows(stg.frame) :
          /\ IsNight(stg.frame.hour[i]) /\ stg.frame.val[c][i] > 0
          /\ last.frame.val[c][i] = 0
          /\ ~IsNight(stg.frame.hour[j]) /\ stg.frame.val[c][j] < 0
          /\ ~IsNa(stg.frame.val[c][j])
          /\ last.frame.val[c][j] = 0

(***************************************************************************)
(* Claims about multi-output mode (a) features (SpecStrategy)              *)
(***************************************************************************)
\* the instance is a multi-output one fitted in mode (a)
FittedModeA ==
    /\ last.op # "none"
    /\ stg.inst.kind = "MultiOutput"
    /\ FitMode(stg.inst) = "a"
    /\ stg.inst.is_fitted

\* frame f with the value of column c at row t replaced by v
WithCell(f, c, t, v) == [f EXCEPT !.val[c][t] = v]
AltValues == {NaN, 0, 12300}

\* C12: in multi-output mode (a), for every target column A, every other
\* power column B and every training row t, changing B's value at t alone
\* never changes A's feature vector at t: no feature of A's model is the
\* same-timestamp value of B or derived from it.
C12_NoLabelLeakage ==
    FittedModeA =>
        \A a \in stg.inst.model.cols : \A b \in ColSet(stg.pcs) \ {a} :
            \A t \in NotNaRows(stg.frame, a) : \A v \in AltValues :
                FeatureVector(stg.frame, stg.inst.model.feature_cols[a], t, a)
                  = FeatureVector(WithCell(stg.frame, b, t, v),
                                  stg.inst.model.feature_cols[a], t, a)

\* a model was trained for A with B as another power column and as a
\* correlation column, on a frame in which B has values and gaps
C12_Witness ==
    /\ FittedModeA
    /\ stg.pcs = <<"A", "B">>
    /\ "A" \in stg.inst.model.cols
    /\ "B" \in ColSet(CorrelationFeatures(stg.inst, stg.pcs))
    /\ NaRows(stg.frame, "B") # {}
    /\ NotNaRows(stg.frame, "A") \cap NotNaRows(stg.frame, "B") # {}

\* the correlation columns other than the target that the frame has
OtherCorrelationColumns(a) ==
    (ColSet(CorrelationFeatures(stg.inst, stg.pcs)) \cap FrameCols) \ {a}

\* C20: in mode (a) with at least two power columns, the model trained for
\* each target column has among its input features the history-only
\* correlation features (lag values, shifted rolling mean and std,
\* availability indicators, correlation strength) of every other
\* correlation column.
C20_CorrelationFeaturesUsed ==
    (FittedModeA /\ Len(stg.pcs) >= 2) =>
        \A a \in stg.inst.model.cols : \A b \in OtherCorrelationColumns(a) :
            \A k \in CorrelationKinds :
                [col |-> b, kind |-> k] \in stg.inst.model.feature_cols[a]

(***************************************************************************)
(* Claims about the data-sufficiency thresholds (SpecStrategy)             *)
(***************************************************************************)
\* rows of column c usable as training rows of its mode (a) model
UsableRows(f, pcs, c) ==
    {i \in NotNaRows(f, c) : \A e \in SafeExtraFeatures(pcs) : ~IsNa(f.val[e][i])}

\* C19: after fit, a Gaussian-process model exists for a column exactly when
\* the column has at least 10 complete cases; a multi-output model exists
\* for a column exactly when it has at least 50 usable rows in mode (a),
\* and the model of modes (b) and (c) is trained exactly when there are at
\* least 100 usable rows; at exactly the threshold the model is fitted.
C19_DataSufficiencyThresholds ==
    stg.fit_called =>
        /\ stg.inst.kind = "GP" =>
              stg.inst.gp_models =
                 {c \in ColSet(stg.pcs) : Cardinality(NotNaRows(stg.frame, c)) >= 10}
        /\ (stg.inst.kind = "MultiOutput" /\ FitMode(stg.inst) = "a") =>
              stg.inst.model.cols =
                 {c \in ColSet(stg.pcs) :
                     Cardinality(UsableRows(stg.frame, stg.pcs, c)) >= 50}
        /\ (stg.inst.kind = "MultiOutput" /\ FitMode(stg.inst) = "b") =>
              (stg.inst.model.shape = "dict_of_models"
                 <=> Cardinality(CompleteRows(stg.frame, stg.pcs)) >= 100)
        /\ (stg.inst.kind = "MultiOutput" /\ FitMode(stg.inst) = "c") =>
              (stg.inst.model.shape = "single"
                 <=> Cardinality(CompleteRows(stg.frame, stg.pcs)) >= 100)

(***************************************************************************)
(* Claims about configuration-driven solar constraints (SpecStrategy)      *)
(***************************************************************************)
\* a multi-output instance built with a configuration returned a frame
ConfiguredReturned ==
    /\ InterpolateReturned
    /\ stg.inst.kind = "MultiOutput"
    /\ stg.inst.has_config

\* the value of cell (c, i) before the constraints: the input value, or the
\* prediction where the input is missing and the column has a model
BeforeConstraints(c, i) ==
    IF IsNa(stg.frame.val[c][i])
         /\ (stg.inst.model.shape = "dict_of_dicts" => c \in stg.inst.model.cols)
    THEN Predict(last.seed, i, c)
    ELSE stg.frame.val[c][i]

\* the settings of the supplied configuration, absent keys at their defaults
SettingsOf(inst) ==
    LET sc == IF "solar_constraints" \in DOMAIN inst.block
              THEN inst.block.solar_constraints ELSE <<>>
    IN  [nighttime_zero |-> IF "nighttime_zero" \in DOMAIN sc THEN sc.nighttime_zero ELSE TRUE,
         negative_clipping |-> IF "negative_clipping" \in DOMAIN sc
                               THEN sc.negative_clipping ELSE TRUE,
         max_power_limits |-> IF "max_power_limits" \in DOMAIN sc
                              THEN sc.max_power_limits ELSE <<>>,
         max_efficiency |-> IF "max_efficiency" \in DOMAIN sc THEN sc.max_efficiency ELSE 100]

\* C21: when a method configuration is supplied to the multi-output
\* strategy, in the frame interpolate returns a night cell is zeroed only if
\* nighttime_zero is true, a negative value is clipped only if
\* negative_clipping is true, a value is clipped to the column's
\* max_power_limits entry when it has one, and the value is scaled by
\* max_efficiency when that is below 1; the hardcoded defaults are not
\* applied in addition.
C21_ConfiguredSolarConstraints ==
    ConfiguredReturned =>
        \A c \in ColSet(stg.pcs) : \A i \in Rows(stg.frame) :
            LET st == SettingsOf(stg.inst)
                v0 == BeforeConstraints(c, i)
                night == stg.frame.hour[i] \in (0..5) \cup (19..23)
                v1 == IF st.nighttime_zero /\ night THEN 0 ELSE v0
                v2 == IF st.negative_clipping /\ ~IsNa(v1) /\ v1 < 0 THEN 0 ELSE v1
                v3 == IF c \in DOMAIN st.max_power_limits /\ ~IsNa(v2)
                         /\ v2 > st.max_power_limits[c]
                      THEN st.max_power_limits[c] ELSE v2
                v4 == IF st.max_efficiency < 100 /\ ~IsNa(v3)
                      THEN (v3 * st.max_efficiency) \div 100 ELSE v3
            IN  last.frame.val[c][i] = v4

\* C21 witness: under a configuration that turns night zeroing and negative
\* clipping off, sets a limit for A and an efficiency of one half, the
\* returned frame has a non-zero night value, a negative value and a value
\* cut to half the limit
C21_Witness ==
    /\ ConfiguredReturned
    /\ stg.inst.block = BlockCustom
    /\ \E i \in Rows(stg.frame) :
          IsNight(stg.frame.hour[i]) /\ last.frame.val["A"][i] > 0
    /\ \E i \in Rows(stg.frame) : last.frame.val["A"][i] < 0
    /\ \E i \in Rows(stg.frame) :
          stg.frame.val["A"][i] > 300 /\ last.frame.val["A"][i] = 150

(***************************************************************************)
(* Claims about the size of the validation split (Spec)                    *)
(***************************************************************************)
\* the rows of the request's frame complete in all power columns
CompleteOfRun ==
    {i \in Rows(req.df) : \A c \in ColSet(run.power_columns) : ~IsNa(req.df.val[c][i])}

\* the least integer not below 15% of n
CeilPercent15(n) == (n * 15 + 99) \div 100

\* C22: for n complete rows with n >= 20, the number of validation indices
\* chosen is max(10, ceil(0.15 * n)), it never exceeds n, and running the
\* split again on the same frame yields the identical indices.
C22_ValidationSplitSize ==
    (SplitDone /\ Cardinality(CompleteOfRun) >= 20) =>
        LET n == Cardinality(CompleteOfRun)
            idx == run.split.info.validation_indices
            wanted == IF CeilPercent15(n) > 10 THEN CeilPercent15(n) ELSE 10
        IN  /\ Len(idx) = wanted
            /\ Len(idx) <= n
            /\ create_validation_split(req.df, run.power_columns)
                    .info.validation_indices = idx

(***************************************************************************)
(* Claims about the theoretical solar curve (SpecStrategy)                 *)
(***************************************************************************)
\* C23: calculate_theoretical_solar_curve returns 0 for every hour outside
\* [6,18]; inside it the cosine argument reaches plus or minus pi/2 only at
\* 6 hours from the peak, so the value is strictly positive at every hour
\* less than 6 hours from the peak, and with peak_hour = 12 the curve is
\* strictly positive for every hour strictly between 6 and 18.
C23_PhysicsCurveShape ==
    last.op = "calculate_theoretical_solar_curve" =>
        /\ last.hour \notin 6..18 => (last.power = 0 /\ ~last.positive)
        /\ (/\ last.hour \in 6..18
            /\ last.hour - last.peak_hour \in -5..5) => last.positive
        /\ (last.peak_hour = 12 /\ last.hour \in 7..17) => last.positive

(***************************************************************************)
(* Claims about the calls the engine makes on a strategy (Spec)            *)
(***************************************************************************)
\* the run got past method resolution and then failed in the validation
\* block or in the full interpolation
FailedInStrategy ==
    /\ run.phase = "failed"
    /\ run.stage \in {"validation", "full"}

\* the configured multi-output mode trains one regressor for all columns
SingleRegressorMode ==
    /\ Interpolators[run.method] = "MultiOutput"
    /\ FitMode(FreshInstance("MultiOutput", TRUE, MethodConfig(req.recommendations))) = "c"

\* C24: for every method name of the engine's mapping, the engine's
\* construct(interpolation_config), fit(frame, power_columns, time_column,
\* weather) and interpolate(frame, power_columns, time_column, weather) are
\* accepted by the mapped class, and so are the calls of the Spline fallback
\* inside the multi-output strategy: a run with a valid structure section
\* and a known method never fails with the TypeError of a rejected call.
C24_EngineCallsAccepted ==
    (FailedInStrategy /\ ~SingleRegressorMode) => run.raised # "TypeError"

(***************************************************************************)
(* Claims about the multi-output mode in fit and interpolate (SpecStrategy) *)
(***************************************************************************)
\* C25: for every configuration, including ones where
\* model_equipment_independently or use_equipment_correlation is absent and
\* defaulted, the mode chosen by fit and the mode assumed by interpolate are
\* the same (interpolate builds the correlation features exactly when fit
\* trained in mode (a)), so every feature column a trained model expects is
\* constructed by interpolate before prediction.
C25_FitInterpolateModeAgree ==
    (stg.inst.kind = "MultiOutput" /\ stg.fit_called /\ last.op = "interpolate") =>
        /\ (FitMode(stg.inst) = "a") <=> InterpolateAddsCorrelation(stg.inst)
        /\ last.raised # "KeyError"

(***************************************************************************)
(* Claims about the frame interpolate returns (SpecStrategy)               *)
(***************************************************************************)
\* C26: for every strategy and every input frame, interpolate returns a
\* frame with the same rows and columns, leaves the input frame as it was,
\* and leaves unchanged every power value that was non-missing,
\* non-negative and at a daytime hour (6..18) in the input; only missing,
\* nighttime and negative cells may differ.
C26_InterpolationFrameEffect ==
    InterpolateReturned =>
        /\ last.frame.n = stg.frame.n
        /\ last.frame.hour = stg.frame.hour
        /\ DOMAIN last.frame.val = DOMAIN stg.frame.val
        /\ \A c \in FrameCols \ ColSet(stg.pcs) : last.frame.val[c] = stg.frame.val[c]
        /\ \A c \in ColSet(stg.pcs) : \A i \in Rows(stg.frame) :
              (/\ ~IsNa(stg.frame.val[c][i])
               /\ stg.frame.val[c][i] >= 0
               /\ stg.frame.hour[i] \in 6..18)
                  => last.frame.val[c][i] = stg.frame.val[c][i]

(***************************************************************************)
(* Claims about running the recommender's output (SpecRecommend)           *)
(***************************************************************************)
\* C27: for every analysis with at least one gap, the primary_method
\* produced by recommend_methods_generic is a key of the engine's method
\* mapping, so the engine never rejects the recommender's own output as an
\* unknown method.
C27_RecommendedMethodRunnable ==
    (rpc = "done" /\ Len(all_gap_lengths) >= 1) =>
        recommendations.primary_method \in DOMAIN Interpolators

(***************************************************************************)
(* Claims about the gap summary (SpecRecommend)                            *)
(***************************************************************************)
\* C28: the counts of gap_length_distribution sum to the number of gaps
\* (each detected gap is counted in exactly one bin, whatever its length),
\* hence the recommender's total_gaps is 0, and it returns early, only when
\* there is no gap at all.
C28_GapSummaryConservation ==
    /\ rpc \in {"input", "done"} =>
          SumOver(gap_dist, DOMAIN gap_dist) = Len(all_gap_lengths)
    /\ (rpc = "done" /\ recommendations.returned_early) => all_gap_lengths = <<>>

(***************************************************************************)
(* Claims about the physics parameters (SpecStrategy)                      *)
(***************************************************************************)
\* the rows of column c with an observed value at an hour in 6..18
ObservedDaytime(c) ==
    {i \in Rows(stg.frame) :
        ~IsNa(stg.frame.val[c][i]) /\ stg.frame.hour[i] \in 6..18}

\* C29: after PhysicsBasedInterpolator.fit, for every column with at least
\* one observed daytime value the stored peak_hour is an hour of day in
\* 6..18, the hour at which the maximum daytime value was observed, however
\* many rows the frame has and wherever the maximum occurs.
C29_PhysicsPeakHourRange ==
    (stg.inst.kind = "Physics" /\ stg.fit_called) =>
        \A c \in ColSet(stg.pcs) :
            ObservedDaytime(c) # {} =>
                /\ c \in DOMAIN stg.inst.system_parameters
                /\ stg.inst.system_parameters[c].peak_hour \in 6..18
                /\ \E i \in ObservedDaytime(c) :
                      /\ \A j \in ObservedDaytime(c) :
                            stg.frame.val[c][j] <= stg.frame.val[c][i]
                      /\ stg.frame.hour[i] = stg.inst.system_parameters[c].peak_hour

(***************************************************************************)
(* Claims about repeated fit calls (SpecStrategy)                          *)
(***************************************************************************)
\* the columns that meet the instance's data-sufficiency test in the frame
\* of the most recent fit
MetInLatestFit ==
    IF stg.inst.kind = "GP"
    THEN {c \in ColSet(stg.pcs) : Cardinality(NotNaRows(stg.frame, c)) > 10}
    ELSE IF stg.inst.kind = "Physics"
    THEN {c \in ColSet(stg.pcs) : ObservedDaytime(c) # {}}
    ELSE IF stg.inst.kind = "MultiOutput" /\ FitMode(stg.inst) = "a"
    THEN {c \in ColSet(stg.pcs) :
             Cardinality(UsableRows(stg.frame, stg.pcs, c)) >= 50}
    ELSE IF stg.inst.kind = "MultiOutput"
            /\ Cardinality(CompleteRows(stg.frame, stg.pcs)) > 100
    THEN ColSet(stg.pcs)
    ELSE {}

\* the columns the instance holds a model or parameters for
HeldColumns ==
    IF stg.inst.kind = "GP" THEN stg.inst.gp_models
    ELSE IF stg.inst.kind = "Physics" THEN DOMAIN stg.inst.system_parameters
    ELSE IF stg.inst.model.shape = "None" THEN {}
    ELSE IF stg.inst.model.shape = "single" THEN ColSet(stg.pcs)
    ELSE stg.inst.model.cols

\* C30: after any sequence of fit calls on one instance, the per-column
\* models or parameters it holds are exactly those of the columns that met
\* the data-sufficiency threshold in the most recent fit, and interpolate
\* leaves missing the daytime cells of a column that is below the threshold
\* in the latest fit, even if an earlier fit had trained it.
C30_FittedStateIsLatestFit ==
    (stg.fit_called /\ stg.inst.kind \in {"GP", "Physics", "MultiOutput"}) =>
        /\ HeldColumns = MetInLatestFit
        /\ (InterpolateReturned /\ stg.inst.kind \in {"GP", "Physics"}) =>
              \A c \in ColSet(stg.pcs) \ MetInLatestFit :
                  \A i \in NaRows(stg.frame, c) :
                      stg.frame.hour[i] \in 6..18 => IsNa(last.frame.val[c][i])

====
